---------------------------- MODULE Spec2Model ----------------------------
(***************************************************************************)
(* Model of the Inovesa rotation map (src/src/HM/RotationMap.cpp) and of   *)
(* the Array container (src/inc/Array.h).                                  *)
(*                                                                         *)
(* Floating-point quantities (meshaxis_t, interpol_t, meshdata_t) are      *)
(* modelled in exact rational arithmetic: a value is a pair <<n, d>> with  *)
(* d > 0 and gcd(n, d) = 1.  Two values of meshdata_t that are no          *)
(* rationals of the model are tagged with d = 0 (see MeshdataMin).         *)
(***************************************************************************)
EXTENDS Integers, Sequences, FiniteSets, TLC

VARIABLES
    build,          \* compile-time configuration of the build
    _xsize,         \* HeritageMap::_xsize
    _ysize,         \* HeritageMap::_ysize
    angle,          \* rotation angle, as the pair of cos and sin (fifths)
    _heritage_map,  \* stencil table: cell -> (row position -> hi)
    data_in,        \* _in->getData()
    data_out,       \* _out->getData()
    pc,             \* position of the program
    i,              \* loop counter of apply()
    runs,           \* completed calls of apply(): input and output field
    coef,           \* scalars the caller combined two input fields with
    xiq,            \* a fractional offset handed to the coefficient formulas
    ic,             \* the interpolation coefficients computed from it
    _ptr,           \* the element each iterator over an array points to
    workers,        \* parallel evaluation: each worker's cell and position
    claimed,        \* parallel evaluation: cells handed to a worker
    INOVESA_SYNC_CL,\* accelerator path: compile-time flag of the build
    queue,          \* accelerator path: OCLH::queue, commands not yet run
    data_buf_in,    \* accelerator path: _in->data_buf, on the device
    data_buf_out,   \* accelerator path: _out->data_buf, on the device
    items,          \* accelerator path: work-items of the kernel that ran
    NDEBUG,         \* Array.h: compile-time flag, TRUE when defined
    shape,          \* Array.h: members of an array of rank 1 to 5
    access,         \* Array.h: the last element access and its outcome
    arrays,         \* Array.h: members v, _size, state of the arrays A, B
    heap,           \* Array.h: the buffers, who acquired and released them
    call,           \* Array.h: the last call and the state it started in
    binop,          \* Array.h: an operation on two arrays and its outcome
    mem             \* Array.h: an aligned allocation and its release

vars ==
    <<build, _xsize, _ysize, angle, _heritage_map, data_in, data_out, pc, i,
      runs, coef, xiq, ic, _ptr, workers, claimed,
      INOVESA_SYNC_CL, queue, data_buf_in, data_buf_out, items,
      NDEBUG, shape, access, arrays, heap, call, binop, mem>>

\* the stencil table and what it was built from
mapVars == <<build, _xsize, _ysize, angle, _heritage_map>>

\* the record the caller keeps of its calls
callerVars == <<runs, coef>>

\* the coefficient formulas taken on their own
coefVars == <<xiq, ic>>

\* the iterators of array1
iterVars == <<_ptr>>

\* the workers of a parallel evaluation of the loop of apply()
parVars == <<workers, claimed>>

\* the accelerator: build flag, command queue and device buffers
clVars == <<INOVESA_SYNC_CL, queue, data_buf_in, data_buf_out, items>>

\* the arrays of Array.h
arrVars == <<NDEBUG, shape, access, arrays, heap, call, binop, mem>>

\* what the steps of the sequential path leave alone
idleSeq == <<callerVars, coefVars, iterVars, parVars, clVars, arrVars>>

\* what the steps of the caller of SpecLin leave alone
idleLin == <<coefVars, iterVars, parVars, clVars, arrVars>>

\* what the steps of the parallel evaluation leave alone
idlePar == <<callerVars, coefVars, iterVars, clVars, arrVars>>

\* what the steps of the accelerator path leave alone
idleCL == <<parVars, callerVars, coefVars, iterVars, arrVars>>

\* what the operations on arrays leave alone
idleArr ==
    <<build, _xsize, _ysize, angle, _heritage_map, data_in, data_out, i,
      callerVars, coefVars, iterVars, parVars, clVars, mem>>

----------------------------------------------------------------------------
(* Bounds of the model *)

\* largest grid extent in q
MaxX == 3
\* largest grid extent in p
MaxY == 2

----------------------------------------------------------------------------
(* Exact arithmetic standing for the floating-point operations *)

Abs(x) == IF x < 0 THEN -x ELSE x

RECURSIVE GCD(_, _)
GCD(a, b) == IF b = 0 THEN a ELSE GCD(b, a % b)

\* the rational n/d in lowest terms, d > 0
R(n, d) ==
    LET s == IF d < 0 THEN -1 ELSE 1
        g == GCD(Abs(n), Abs(d))
    IN  IF n = 0 THEN <<0, 1>> ELSE <<(s * n) \div g, (s * d) \div g>>

RInt(n) == <<n, 1>>

RAdd(a, b) ==
    LET g == GCD(a[2], b[2])
    IN  R(a[1] * (b[2] \div g) + b[1] * (a[2] \div g), (a[2] \div g) * b[2])

RNeg(a) == <<-a[1], a[2]>>

RSub(a, b) == RAdd(a, RNeg(b))

RMul(a, b) ==
    LET g1 == GCD(Abs(a[1]), b[2])
        g2 == GCD(Abs(b[1]), a[2])
    IN  IF a[1] = 0 \/ b[1] = 0 THEN <<0, 1>>
        ELSE <<(a[1] \div g1) * (b[1] \div g2), (a[2] \div g2) * (b[2] \div g1)>>

RDivInt(a, k) == RMul(a, R(1, k))

\* std::modf: the integral part, truncated toward zero ...
ModfInt(a) == IF a[1] >= 0 THEN a[1] \div a[2] ELSE -((-a[1]) \div a[2])

\* ... and the fractional part, which has the sign of the argument
ModfFrac(a) == RSub(a, RInt(ModfInt(a)))

----------------------------------------------------------------------------
(* Build configuration *)

\* An unsigned int is represented by the signed residue of its value modulo
\* 2^32 (values of 2^31 and more by the negative numbers); UIntLess is the
\* comparison of the two unsigned values.
UIntLess(a, b) == IF (a < 0) = (b < 0) THEN a < b ELSE b < 0

\* The conversion of a negative floating-point value to unsigned int is
\* undefined; a build either wraps it modulo 2^32 or saturates it to 0.
NegConversions == {"wrap", "zero"}

Builds ==
    [INTERPOL_TYPE : 1..4,
     ROTATION_TYPE : 1..3,
     INTERPOL_SATURATING : {0, 1}]

\* rotation angles with rational cosine and sine, in fifths:
\* 0, pi/2, pi and atan(3/4)
Angles ==
    { [cos |-> 5, sin |-> 0], [cos |-> 0, sin |-> 5], [cos |-> -5, sin |-> 0],
      [cos |-> 4, sin |-> 3] }

\* integer division of C: the quotient is truncated toward zero
CDiv(a, b) ==
    IF (a >= 0) = (b > 0) THEN Abs(a) \div Abs(b) ELSE -(Abs(a) \div Abs(b))

----------------------------------------------------------------------------
(* HeritageMap base class: the table the RotationMap constructor fills *)

\* HeritageMap::_size
_size == _xsize * _ysize

\* HeritageMap::_ip, set to INTERPOL_TYPE*INTERPOL_TYPE
_ip == build.INTERPOL_TYPE * build.INTERPOL_TYPE

Cells == 0 .. (_size - 1)

RowPositions == 0 .. (_ip - 1)

Sentinel == [index |-> 0, weight |-> RInt(0)]

\* the rows as the base class hands them to the constructor: all {0,0}
HeritageMapInit(xs, ys, ip) ==
    [c \in 0 .. (xs * ys - 1) |-> [k \in 0 .. (ip - 1) |-> Sentinel]]

----------------------------------------------------------------------------
(* RotationMap::RotationMap *)

cos_dt == R(angle.cos, 5)

sin_dt == R(-angle.sin, 5)

\* (2*static_cast<int>(q_i)-static_cast<int>(_xsize))/static_cast<int>(_xsize)
Type3Arg(k, size) == RInt(CDiv(2 * k - size, size))

\* q' of grid point (q_i, p_i)
Qp(q_i, p_i) ==
    CASE build.ROTATION_TYPE = 1 ->
           RAdd(RSub(RMul(cos_dt, RSub(RInt(q_i), R(_xsize, 2))),
                     RMul(sin_dt, RSub(RInt(p_i), R(_ysize, 2)))),
                R(_xsize, 2))
      [] build.ROTATION_TYPE = 2 ->
           RSub(RMul(cos_dt, RDivInt(RSub(RInt(q_i), R(_xsize, 2)), _xsize)),
                RMul(sin_dt, RDivInt(RSub(RInt(p_i), R(_ysize, 2)), _ysize)))
      [] build.ROTATION_TYPE = 3 ->
           RSub(RMul(cos_dt, Type3Arg(q_i, _xsize)),
                RMul(sin_dt, Type3Arg(p_i, _ysize)))

\* p' of grid point (q_i, p_i)
Pp(q_i, p_i) ==
    CASE build.ROTATION_TYPE = 1 ->
           RAdd(RAdd(RMul(sin_dt, RSub(RInt(q_i), R(_xsize, 2))),
                     RMul(cos_dt, RSub(RInt(p_i), R(_ysize, 2)))),
                R(_ysize, 2))
      [] build.ROTATION_TYPE = 2 ->
           RAdd(RMul(sin_dt, RDivInt(RSub(RInt(q_i), R(_xsize, 2)), _xsize)),
                RMul(cos_dt, RDivInt(RSub(RInt(p_i), R(_ysize, 2)), _ysize)))
      [] build.ROTATION_TYPE = 3 ->
           RAdd(RMul(sin_dt, Type3Arg(q_i, _xsize)),
                RMul(cos_dt, Type3Arg(p_i, _ysize)))

Qcoord(q_i, p_i) ==
    CASE build.ROTATION_TYPE = 1 -> Qp(q_i, p_i)
      [] build.ROTATION_TYPE = 2 ->
           RMul(RAdd(Qp(q_i, p_i), R(1, 2)), RInt(_xsize))
      [] build.ROTATION_TYPE = 3 ->
           RDivInt(RMul(RAdd(Qp(q_i, p_i), RInt(1)), RInt(_xsize)), 2)

Pcoord(q_i, p_i) ==
    CASE build.ROTATION_TYPE = 1 -> Pp(q_i, p_i)
      [] build.ROTATION_TYPE = 2 ->
           RMul(RAdd(Pp(q_i, p_i), R(1, 2)), RInt(_ysize))
      [] build.ROTATION_TYPE = 3 ->
           RDivInt(RMul(RAdd(Pp(q_i, p_i), RInt(1)), RInt(_ysize)), 2)

\* id = qq_int: the conversion of the integral part to unsigned int
ToUnsigned(conv, ip) ==
    IF ip >= 0 THEN ip
    ELSE IF conv = "wrap" THEN ip ELSE 0

Id(conv, q_i, p_i) == ToUnsigned(conv, ModfInt(Qcoord(q_i, p_i)))

Jd(conv, q_i, p_i) == ToUnsigned(conv, ModfInt(Pcoord(q_i, p_i)))

Xiq(q_i, p_i) == ModfFrac(Qcoord(q_i, p_i))

Xip(q_i, p_i) == ModfFrac(Pcoord(q_i, p_i))

\* coefficients whose first entry of the 4-point kernel has the sign of the
\* last one
IcSameSign(x) ==
    LET one == RInt(1)
        two == RInt(2)
    IN  CASE build.INTERPOL_TYPE = 1 -> [a \in 0..0 |-> one]
          [] build.INTERPOL_TYPE = 2 ->
               [a \in 0..1 |-> IF a = 0 THEN RSub(one, x) ELSE x]
          [] build.INTERPOL_TYPE = 3 ->
               [a \in 0..2 |->
                  CASE a = 0 -> RDivInt(RMul(x, RSub(x, one)), 2)
                    [] a = 1 -> RSub(one, RMul(x, x))
                    [] a = 2 -> RDivInt(RMul(x, RAdd(x, one)), 2)]
          [] build.INTERPOL_TYPE = 4 ->
               [a \in 0..3 |->
                  CASE a = 0 -> RMul(RMul(RMul(RSub(x, one), RSub(x, two)), x),
                                     R(1, 6))
                    [] a = 1 -> RDivInt(RMul(RMul(RAdd(x, one), RSub(x, one)),
                                             RSub(x, two)), 2)
                    [] a = 2 -> RDivInt(RMul(RMul(RSub(two, x), x),
                                             RAdd(x, one)), 2)
                    [] a = 3 -> RMul(RMul(RMul(x, RAdd(x, one)), RSub(x, one)),
                                     R(1, 6))]

\* the arrays icq and icp of interpolation coefficients
Ic(x) ==
    LET one == RInt(1)
        two == RInt(2)
    IN  CASE build.INTERPOL_TYPE = 1 -> [a \in 0..0 |-> one]
          [] build.INTERPOL_TYPE = 2 ->
               [a \in 0..1 |-> IF a = 0 THEN RSub(one, x) ELSE x]
          [] build.INTERPOL_TYPE = 3 ->
               [a \in 0..2 |->
                  CASE a = 0 -> RDivInt(RMul(x, RSub(x, one)), 2)
                    [] a = 1 -> RSub(one, RMul(x, x))
                    [] a = 2 -> RDivInt(RMul(x, RAdd(x, one)), 2)]
          [] build.INTERPOL_TYPE = 4 ->
               [a \in 0..3 |->
                  CASE a = 0 -> RMul(RMul(RMul(RSub(x, one), RSub(x, two)), x),
                                     R(-1, 6))
                    [] a = 1 -> RDivInt(RMul(RMul(RAdd(x, one), RSub(x, one)),
                                             RSub(x, two)), 2)
                    [] a = 2 -> RDivInt(RMul(RMul(RSub(two, x), x),
                                             RAdd(x, one)), 2)
                    [] a = 3 -> RMul(RMul(RMul(x, RAdd(x, one)), RSub(x, one)),
                                     R(1, 6))]

\* hmc with the two coefficient arrays exchanged
HmcTransposed(icq, icp) ==
    [k \in RowPositions |->
       RMul(icq[k % build.INTERPOL_TYPE], icp[k \div build.INTERPOL_TYPE])]

\* hmc[hmp*INTERPOL_TYPE+hmq] = icq[hmp]*icp[hmq]
Hmc(icq, icp) ==
    [k \in RowPositions |->
       RMul(icq[k \div build.INTERPOL_TYPE], icp[k % build.INTERPOL_TYPE])]

\* an entry written with the test of i0 alone
PhRowTestOnly(id, jd, hmc, i1, j1) ==
    LET j0 == jd + j1 - (build.INTERPOL_TYPE - 1) \div 2
        i0 == id + i1 - (build.INTERPOL_TYPE - 1) \div 2
    IN  IF UIntLess(i0, _xsize)
        THEN [index |-> i0 * _ysize + j0,
              weight |-> hmc[i1 * build.INTERPOL_TYPE + j1]]
        ELSE Sentinel

\* ph[i1][j1], the entry written to row position i1*INTERPOL_TYPE+j1
Ph(id, jd, hmc, i1, j1) ==
    LET j0 == jd + j1 - (build.INTERPOL_TYPE - 1) \div 2
        i0 == id + i1 - (build.INTERPOL_TYPE - 1) \div 2
    IN  IF UIntLess(i0, _xsize) /\ UIntLess(j0, _ysize)
        THEN [index |-> i0 * _ysize + j0,
              weight |-> hmc[i1 * build.INTERPOL_TYPE + j1]]
        ELSE Sentinel

\* the row of grid point (q_i, p_i) after the body of the two loops
HeritageRow(conv, old, q_i, p_i) ==
    LET id == Id(conv, q_i, p_i)
        jd == Jd(conv, q_i, p_i)
    IN  IF UIntLess(id, _xsize) /\ UIntLess(jd, _ysize)
        THEN LET hmc == Hmc(Ic(Xiq(q_i, p_i)), Ic(Xip(q_i, p_i)))
             IN  [k \in RowPositions |->
                    Ph(id, jd, hmc, k \div build.INTERPOL_TYPE,
                       k % build.INTERPOL_TYPE)]
        ELSE old

\* the constructor; _heritage_map[q_i][p_i] is row q_i*_ysize+p_i of the table
RotationMap ==
    /\ pc = "start"
    /\ \E conv \in NegConversions :
         _heritage_map' =
           [c \in Cells |->
              HeritageRow(conv, _heritage_map[c], c \div _ysize, c % _ysize)]
    /\ pc' = "constructed"
    /\ UNCHANGED <<build, _xsize, _ysize, angle, data_in, data_out, i,
                   idleSeq>>

----------------------------------------------------------------------------
(* meshdata_t *)

\* std::numeric_limits<meshdata_t>::min(): for a floating-point type the
\* smallest positive normalised value, below every positive value of the model
MeshdataMin == <<1, 0>>

\* std::numeric_limits<meshdata_t>::max(), above every value of the model
MeshdataMax == <<2, 0>>

\* a < b on meshdata_t
DLess(a, b) ==
    CASE a = b -> FALSE
      [] a = MeshdataMax -> FALSE
      [] b = MeshdataMax -> TRUE
      [] a = MeshdataMin -> b[1] > 0
      [] b = MeshdataMin -> a[1] <= 0
      [] OTHER -> a[1] * b[2] < b[1] * a[2]

\* std::max and std::min
StdMax(a, b) == IF DLess(a, b) THEN b ELSE a

StdMin(a, b) == IF DLess(b, a) THEN b ELSE a

\* values a cell of the input field takes
Vals == {-1, 0, 2}

\* content of the output buffer before apply() writes it
Stale == RInt(7)

\* input fields: a background value and at most one cell that differs
Fields(n) ==
    { [c \in 0 .. (n - 1) |-> IF c = h THEN RInt(v) ELSE RInt(b)] :
        h \in 0 .. (n - 1), v \in Vals, b \in Vals }

----------------------------------------------------------------------------
(* RotationMap::apply, sequential path *)

\* a loop over j that stops one entry short of the row
RECURSIVE AccumulateShort(_, _, _, _, _)
AccumulateShort(hm, din, c, j, acc) ==
    IF j >= _ip - 1 THEN acc
    ELSE AccumulateShort(hm, din, c, j + 1,
                         RAdd(acc, RMul(din[hm[c][j].index], hm[c][j].weight)))

\* the inner loop over j: data_out[i] += data_in[h.index]*h.weight
RECURSIVE Accumulate(_, _, _, _, _)
Accumulate(hm, din, c, j, acc) ==
    IF j >= _ip THEN acc
    ELSE Accumulate(hm, din, c, j + 1,
                    RAdd(acc, RMul(din[hm[c][j].index], hm[c][j].weight)))

\* a saturation pass whose loops over x and y start one column early
SatPositionsEarly ==
    [n \in 1..4 |->
       (1 + ((n - 1) \div 2)) * build.INTERPOL_TYPE + ((n - 1) % 2)]

\* row positions x*INTERPOL_TYPE+y read by the saturation pass, in loop order
SatPositions ==
    [n \in 1..4 |->
       (1 + ((n - 1) \div 2)) * build.INTERPOL_TYPE + (1 + ((n - 1) % 2))]

\* _heritage_map1D[c][k] addresses entry c*_ip+k of the contiguous table
InTable(c, k) == c * _ip + k < _size * _ip

HmRead(hm, c, k) == hm[(c * _ip + k) \div _ip][(c * _ip + k) % _ip]

\* row positions the saturation pass reads behind the end of the table
OutOfTable(c) ==
    IF build.INTERPOL_SATURATING = 1
    THEN { SatPositions[n] : n \in { m \in 1..4 : ~InTable(c, SatPositions[m]) } }
    ELSE {}

\* what a read behind the end of the table may yield
GarbageVals == {RInt(-1), RInt(2)}

\* data_in[_heritage_map1D[c][x*INTERPOL_TYPE+y].index]; a read behind the
\* table yields an arbitrary value
SatRead(hm, din, c, n, garbage) ==
    IF InTable(c, SatPositions[n])
    THEN din[HmRead(hm, c, SatPositions[n]).index]
    ELSE garbage[SatPositions[n]]

RECURSIVE Ceil(_, _, _, _, _)
Ceil(hm, din, c, n, garbage) ==
    IF n = 0 THEN MeshdataMin
    ELSE StdMax(Ceil(hm, din, c, n - 1, garbage), SatRead(hm, din, c, n, garbage))

RECURSIVE Flor(_, _, _, _, _)
Flor(hm, din, c, n, garbage) ==
    IF n = 0 THEN MeshdataMax
    ELSE StdMin(Flor(hm, din, c, n - 1, garbage), SatRead(hm, din, c, n, garbage))

\* data_out[i] = std::max(std::min(ceil,data_out[i]),flor)
Saturate(hm, din, c, garbage, v) ==
    StdMax(StdMin(Ceil(hm, din, c, 4, garbage), v), Flor(hm, din, c, 4, garbage))

\* a call of apply() that forgets data_out[i] = 0
CellValueNoReset(hm, din, c, garbage) ==
    LET sum == Accumulate(hm, din, c, 0, Stale)
    IN  IF build.INTERPOL_SATURATING = 1
        THEN Saturate(hm, din, c, garbage, sum)
        ELSE sum

\* the value the body of the loop over i leaves in data_out[c]
CellValue(hm, din, c, garbage) ==
    LET sum == Accumulate(hm, din, c, 0, RInt(0))
    IN  IF build.INTERPOL_SATURATING = 1
        THEN Saturate(hm, din, c, garbage, sum)
        ELSE sum

\* entry of apply(): the fields the caller passes
ApplyBegin ==
    /\ pc = "constructed"
    /\ data_in' \in Fields(_size)
    /\ data_out' = [c \in Cells |-> Stale]
    /\ i' = 0
    /\ pc' = "apply"
    /\ UNCHANGED <<mapVars, idleSeq>>

\* one iteration of the loop over i
ApplyCell ==
    /\ pc = "apply"
    /\ i < _size
    /\ \E garbage \in [OutOfTable(i) -> GarbageVals] :
         data_out' = [data_out EXCEPT
                        ![i] = CellValue(_heritage_map, data_in, i, garbage)]
    /\ i' = i + 1
    /\ UNCHANGED <<mapVars, data_in, pc, idleSeq>>

\* the loop ends and apply() returns
ApplyReturn ==
    /\ pc = "apply"
    /\ i >= _size
    /\ pc' = "done"
    /\ UNCHANGED <<mapVars, data_in, data_out, i, idleSeq>>

----------------------------------------------------------------------------
(* The program: construct the map, then apply it to a field *)

NoField == <<>>

\* the state before the body of the constructor runs
Constructing(builds, shapes) ==
    /\ build \in builds
    /\ \E xy \in shapes :
         /\ _xsize = xy[1]
         /\ _ysize = xy[2]
    /\ angle \in Angles
    /\ _heritage_map =
         HeritageMapInit(_xsize, _ysize,
                         build.INTERPOL_TYPE * build.INTERPOL_TYPE)
    /\ data_in = NoField
    /\ data_out = NoField
    /\ pc = "start"
    /\ i = 0

NoCalls ==
    /\ runs = <<>>
    /\ coef = <<0, 0>>

NoCoefficients ==
    /\ xiq = RInt(0)
    /\ ic = <<>>

NoIterators == _ptr = <<>>

NoWorkers ==
    /\ workers = <<>>
    /\ claimed = {}

NoDevice ==
    /\ INOVESA_SYNC_CL = 0
    /\ queue = <<>>
    /\ data_buf_in = NoField
    /\ data_buf_out = NoField
    /\ items = {}

NoArrays ==
    /\ NDEBUG = FALSE
    /\ shape = <<>>
    /\ access = <<>>
    /\ arrays = <<>>
    /\ heap = <<>>
    /\ call = <<>>
    /\ binop = <<>>
    /\ mem = <<>>

\* grid shapes sizeX x sizeY
Shapes == (1..MaxX) \X (1..MaxY)

Init ==
    /\ Constructing(Builds, Shapes)
    /\ NoCalls
    /\ NoIterators
    /\ NoCoefficients
    /\ NoWorkers
    /\ NoDevice
    /\ NoArrays

Next == RotationMap \/ ApplyBegin \/ ApplyCell \/ ApplyReturn

Spec == Init /\ [][Next]_vars

----------------------------------------------------------------------------
(* A caller that applies one map to a field X, to a field Y and to a*X + b*Y *)

\* memory behind the end of the table that the saturation passes of one
\* call read, by its position in the contiguous table
BehindTable == UNION { { c * _ip + k : k \in OutOfTable(c) } : c \in Cells }

\* the output field of one call of apply(), all iterations of the loop over i
ApplyField(hm, din, memory) ==
    [c \in Cells |->
       CellValue(hm, din, c, [k \in OutOfTable(c) |-> memory[c * _ip + k]])]

\* the second fields: a peak in the last cell, and a constant field
SecondFields(n) ==
    { [c \in 0 .. (n - 1) |-> IF c = n - 1 THEN RInt(2) ELSE RInt(0)],
      [c \in 0 .. (n - 1) |-> RInt(-1)] }

\* the scalars a, b
Scalars == { <<1, 1>>, <<2, -1>>, <<-1, 2>> }

Combine(ab, x, y) ==
    [c \in DOMAIN x |-> RAdd(RMul(RInt(ab[1]), x[c]), RMul(RInt(ab[2]), y[c]))]

\* the caller fills the input field of its next call
CallerLoad ==
    /\ pc = "constructed"
    /\ Len(runs) < 3
    /\ \/ /\ Len(runs) = 0
          /\ data_in' \in Fields(_size)
          /\ coef' = coef
       \/ /\ Len(runs) = 1
          /\ data_in' \in SecondFields(_size)
          /\ coef' = coef
       \/ /\ Len(runs) = 2
          /\ coef' \in Scalars
          /\ data_in' = Combine(coef', runs[1].din, runs[2].din)
    /\ data_out' = [c \in Cells |-> Stale]
    /\ pc' = "loaded"
    /\ UNCHANGED <<mapVars, i, runs, idleLin>>

\* one call of apply(), from entry to return
Apply ==
    /\ pc = "loaded"
    /\ \E memory \in [BehindTable -> GarbageVals] :
         data_out' = ApplyField(_heritage_map, data_in, memory)
    /\ i' = _size
    /\ pc' = "done"
    /\ UNCHANGED <<mapVars, data_in, idleSeq>>

\* the caller keeps the fields of the call
CallerRecord ==
    /\ pc = "done"
    /\ runs' = Append(runs, [din |-> data_in, dout |-> data_out])
    /\ pc' = "constructed"
    /\ UNCHANGED <<mapVars, data_in, data_out, i, coef, idleLin>>

\* builds whose saturation pass, if enabled, reads inside the row
BuildsInRow ==
    { b \in Builds : b.INTERPOL_SATURATING = 0 \/ b.INTERPOL_TYPE >= 3 }

\* of these, the builds with the first rotation-coordinate convention
BuildsLin == { b \in BuildsInRow : b.ROTATION_TYPE = 1 }

InitLin ==
    /\ Constructing(BuildsLin, Shapes)
    /\ NoCalls
    /\ NoIterators
    /\ NoCoefficients
    /\ NoWorkers
    /\ NoDevice
    /\ NoArrays

NextLin == RotationMap \/ CallerLoad \/ Apply \/ CallerRecord

SpecLin == InitLin /\ [][NextLin]_vars

----------------------------------------------------------------------------
(* The loop over i of apply() evaluated by several workers: a worker takes
   any cell no worker has taken and runs the body of the loop for it, in
   the steps in which the body reads and writes data_out[i]. *)

\* number of workers
NumWorkers == 2

Workers == 1..NumWorkers

\* grids of the parallel evaluation
ParShapes == { <<2, 2>>, <<3, 1>> }

\* input fields of the parallel evaluation
ParFields(n) ==
    { [c \in 0 .. (n - 1) |-> RInt(c - 1)],
      [c \in 0 .. (n - 1) |-> IF c = 0 THEN RInt(2) ELSE RInt(-1)] }

Idle == [cell |-> -1, phase |-> "idle"]

\* a worker that writes through an index all workers share
SharedTarget(w) == 0

\* the index i a worker addresses data_out with
Target(w) == workers[w].cell

ParBegin ==
    /\ pc = "constructed"
    /\ data_in' \in ParFields(_size)
    /\ data_out' = [c \in Cells |-> Stale]
    /\ workers' = [w \in Workers |-> Idle]
    /\ claimed' = {}
    /\ pc' = "par"
    /\ UNCHANGED <<mapVars, i, idlePar>>

\* data_out[i] = 0 for a cell no worker has taken
Take(w) ==
    /\ pc = "par"
    /\ workers[w].phase = "idle"
    /\ \E c \in Cells \ claimed :
         /\ claimed' = claimed \cup {c}
         /\ workers' = [workers EXCEPT ![w] = [cell |-> c, phase |-> "zeroed"]]
         /\ data_out' = [data_out EXCEPT ![Target(w)'] = RInt(0)]
    /\ UNCHANGED <<mapVars, data_in, pc, i, idlePar>>

\* the loop over j, which adds to data_out[i]
Sum(w) ==
    /\ pc = "par"
    /\ workers[w].phase = "zeroed"
    /\ data_out' =
         [data_out EXCEPT
            ![Target(w)] = Accumulate(_heritage_map, data_in, workers[w].cell,
                                      0, data_out[Target(w)])]
    /\ workers' =
         [workers EXCEPT
            ![w] = IF build.INTERPOL_SATURATING = 1
                   THEN [cell |-> workers[w].cell, phase |-> "summed"]
                   ELSE Idle]
    /\ UNCHANGED <<mapVars, data_in, pc, i, claimed, idlePar>>

\* the saturation pass, which clamps data_out[i]
Clamp(w) ==
    /\ pc = "par"
    /\ workers[w].phase = "summed"
    /\ \E garbage \in [OutOfTable(workers[w].cell) -> GarbageVals] :
         data_out' =
           [data_out EXCEPT
              ![Target(w)] = Saturate(_heritage_map, data_in, workers[w].cell,
                                      garbage, data_out[Target(w)])]
    /\ workers' = [workers EXCEPT ![w] = Idle]
    /\ UNCHANGED <<mapVars, data_in, pc, i, claimed, idlePar>>

\* all cells are done
ParReturn ==
    /\ pc = "par"
    /\ claimed = Cells
    /\ \A w \in Workers : workers[w].phase = "idle"
    /\ pc' = "done"
    /\ UNCHANGED <<mapVars, data_in, data_out, i, idleSeq>>

InitPar ==
    /\ Constructing(BuildsLin, ParShapes)
    /\ NoCalls
    /\ NoIterators
    /\ NoCoefficients
    /\ NoWorkers
    /\ NoDevice
    /\ NoArrays

NextPar ==
    \/ RotationMap
    \/ ParBegin
    \/ \E w \in Workers : Take(w) \/ Sum(w) \/ Clamp(w)
    \/ ParReturn

SpecPar == InitPar /\ [][NextPar]_vars

----------------------------------------------------------------------------
(* RotationMap::apply, accelerator path (INOVESA_USE_CL).  The host runs
   the statements of apply() one after the other; the device takes the
   commands of the in-order queue and runs them on its own.  Enqueueing a
   kernel or a barrier returns at once; PhaseSpace::syncCLMem is a blocking
   transfer through the same queue. *)

\* name of the kernel the constructor binds
KernelName ==
    IF build.INTERPOL_TYPE = 4 THEN "applyHM4sat" ELSE "applyHM1D"

\* the value work-item c of the bound kernel leaves in the output buffer
KernelValue(c) ==
    LET sum == Accumulate(_heritage_map, data_buf_in, c, 0, RInt(0))
    IN  IF KernelName = "applyHM4sat"
        THEN Saturate(_heritage_map, data_buf_in, c,
                      [k \in {} |-> RInt(0)], sum)
        ELSE sum

StaleField == [c \in Cells |-> Stale]

\* the host holds a field; the device buffers hold what was last copied
CLBegin ==
    /\ pc = "constructed"
    /\ data_in' \in ParFields(_size)
    /\ data_out' = StaleField
    /\ data_buf_in' \in {data_in', StaleField}
    /\ data_buf_out' = StaleField
    /\ queue' = <<>>
    /\ items' = {}
    /\ pc' = "cl_entry"
    /\ UNCHANGED <<mapVars, i, INOVESA_SYNC_CL, idleCL>>

\* _in->syncCLMem(cpu2dev), compiled in with INOVESA_SYNC_CL
SyncIn ==
    /\ pc = "cl_entry"
    /\ INOVESA_SYNC_CL = 1
    /\ data_buf_in' = data_in
    /\ pc' = "cl_uploaded"
    /\ UNCHANGED <<mapVars, data_in, data_out, i, INOVESA_SYNC_CL, queue,
                   data_buf_out, items, idleCL>>

\* OCLH::queue.enqueueNDRangeKernel(applyHM, NullRange, NDRange(_size))
EnqueueKernel ==
    /\ pc = IF INOVESA_SYNC_CL = 1 THEN "cl_uploaded" ELSE "cl_entry"
    /\ queue' = Append(queue, "applyHM")
    /\ pc' = "cl_dispatched"
    /\ UNCHANGED <<mapVars, data_in, data_out, i, INOVESA_SYNC_CL,
                   data_buf_in, data_buf_out, items, idleCL>>

\* OCLH::queue.enqueueBarrier()
EnqueueBarrier ==
    /\ pc = "cl_dispatched"
    /\ queue' = Append(queue, "barrier")
    /\ pc' = "cl_barrier"
    /\ UNCHANGED <<mapVars, data_in, data_out, i, INOVESA_SYNC_CL,
                   data_buf_in, data_buf_out, items, idleCL>>

\* _out->syncCLMem(dev2cpu), compiled in with INOVESA_SYNC_CL: returns when
\* the commands enqueued before it have run and the buffer is copied
SyncOut ==
    /\ pc = "cl_barrier"
    /\ INOVESA_SYNC_CL = 1
    /\ queue = <<>>
    /\ data_out' = data_buf_out
    /\ pc' = "cl_synced"
    /\ UNCHANGED <<mapVars, data_in, i, clVars, idleCL>>

\* apply() returns
CLReturn ==
    /\ pc = IF INOVESA_SYNC_CL = 1 THEN "cl_synced" ELSE "cl_barrier"
    /\ pc' = "done"
    /\ UNCHANGED <<mapVars, data_in, data_out, i, clVars, idleCL>>

\* the device runs one work-item of the kernel at the head of the queue
WorkItem ==
    /\ pc \in {"cl_dispatched", "cl_barrier", "done"}
    /\ queue # <<>>
    /\ Head(queue) = "applyHM"
    /\ \E c \in Cells \ items :
         /\ data_buf_out' = [data_buf_out EXCEPT ![c] = KernelValue(c)]
         /\ items' = items \cup {c}
    /\ UNCHANGED <<mapVars, data_in, data_out, pc, i, INOVESA_SYNC_CL, queue,
                   data_buf_in, idleCL>>

\* the device has run the command at the head of the queue
Complete ==
    /\ pc \in {"cl_dispatched", "cl_barrier", "done"}
    /\ queue # <<>>
    /\ Head(queue) = "applyHM" => items = Cells
    /\ queue' = Tail(queue)
    /\ UNCHANGED <<mapVars, data_in, data_out, pc, i, INOVESA_SYNC_CL,
                   data_buf_in, data_buf_out, items, idleCL>>

InitCL ==
    /\ Constructing(BuildsLin, ParShapes)
    /\ NoCalls
    /\ NoIterators
    /\ NoCoefficients
    /\ NoWorkers
    /\ INOVESA_SYNC_CL \in {0, 1}
    /\ queue = <<>>
    /\ data_buf_in = NoField
    /\ data_buf_out = NoField
    /\ items = {}
    /\ NoArrays

NextCL ==
    \/ RotationMap
    \/ CLBegin
    \/ SyncIn
    \/ EnqueueKernel
    \/ EnqueueBarrier
    \/ SyncOut
    \/ CLReturn
    \/ WorkItem
    \/ Complete

SpecCL == InitCL /\ [][NextCL]_vars

----------------------------------------------------------------------------
(* Array.h: element access of array1 .. array5 *)

\* largest extent of a dimension
MaxExtent == 2

\* no rotation map is in use while the arrays are exercised
NoMap ==
    /\ build = [INTERPOL_TYPE |-> 1, ROTATION_TYPE |-> 1,
                INTERPOL_SATURATING |-> 0]
    /\ _xsize = 0
    /\ _ysize = 0
    /\ angle = [cos |-> 5, sin |-> 0]
    /\ _heritage_map = <<>>
    /\ data_in = NoField
    /\ data_out = NoField
    /\ i = 0

\* array1() .. array5(): the members the default constructors set
Declared(rank) ==
    CASE rank = 1 -> [rank |-> 1, _size |-> 0]
      [] rank = 2 -> [rank |-> 2, _size |-> 0, nx |-> 0, ny |-> 0]
      [] rank = 3 -> [rank |-> 3, _size |-> 0, nx |-> 0, ny |-> 0, nz |-> 0,
                      nyz |-> 0]
      [] rank = 4 -> [rank |-> 4, _size |-> 0, nx |-> 0, ny |-> 0, nz |-> 0,
                      nw |-> 0, nzw |-> 0, nyzw |-> 0]
      [] rank = 5 -> [rank |-> 5, _size |-> 0, nx |-> 0, ny |-> 0, nz |-> 0,
                      nw |-> 0, nv |-> 0, nwv |-> 0, nzwv |-> 0, nyzwv |-> 0]

\* Dimension(nx0), Dimension(nx0, ny0), ... of the class of that rank
Dimension(n) ==
    CASE Len(n) = 1 -> [rank |-> 1, _size |-> n[1]]
      [] Len(n) = 2 -> [rank |-> 2, nx |-> n[1], ny |-> n[2],
                        _size |-> n[1] * n[2]]
      [] Len(n) = 3 ->
           LET nyz == n[2] * n[3]
           IN  [rank |-> 3, nx |-> n[1], ny |-> n[2], nz |-> n[3],
                nyz |-> nyz, _size |-> n[1] * nyz]
      [] Len(n) = 4 ->
           LET nzw == n[3] * n[4]
               nyzw == n[2] * nzw
           IN  [rank |-> 4, nx |-> n[1], ny |-> n[2], nz |-> n[3],
                nw |-> n[4], nzw |-> nzw, nyzw |-> nyzw,
                _size |-> n[1] * nyzw]
      [] Len(n) = 5 ->
           LET nwv == n[4] * n[5]
               nzwv == n[3] * nwv
               nyzwv == n[2] * nzwv
           IN  [rank |-> 5, nx |-> n[1], ny |-> n[2], nz |-> n[3],
                nw |-> n[4], nv |-> n[5], nwv |-> nwv, nzwv |-> nzwv,
                nyzwv |-> nyzwv, _size |-> n[1] * nyzwv]

\* Check with an off-by-one upper limit
CheckInclusive(ix, n) == ix < 0 \/ ix > n

\* array1::Check: TRUE when it calls ArrayExit
Check(ix, n) == ix < 0 \/ ix >= n

\* array1::__check
__check(ix, n) == ~NDEBUG /\ Check(ix, n)

\* operator () (ix, iy, ...): does a check fail, and the position in v
Element(a, ix) ==
    CASE a.rank = 1 ->
           [fault |-> __check(ix[1], a._size),
            offset |-> ix[1]]
      [] a.rank = 2 ->
           [fault |-> __check(ix[1], a.nx) \/ __check(ix[2], a.ny),
            offset |-> ix[1] * a.ny + ix[2]]
      [] a.rank = 3 ->
           [fault |-> \/ __check(ix[1], a.nx)
                      \/ __check(ix[2], a.ny)
                      \/ __check(ix[3], a.nz),
            offset |-> ix[1] * a.nyz + ix[2] * a.nz + ix[3]]
      [] a.rank = 4 ->
           [fault |-> \/ __check(ix[1], a.nx)
                      \/ __check(ix[2], a.ny)
                      \/ __check(ix[3], a.nz)
                      \/ __check(ix[4], a.nw),
            offset |-> ix[1] * a.nyzw + ix[2] * a.nzw + ix[3] * a.nw + ix[4]]
      [] a.rank = 5 ->
           [fault |-> \/ __check(ix[1], a.nx)
                      \/ __check(ix[2], a.ny)
                      \/ __check(ix[3], a.nz)
                      \/ __check(ix[4], a.nw)
                      \/ __check(ix[5], a.nv),
            offset |-> ix[1] * a.nyzwv + ix[2] * a.nzwv + ix[3] * a.nwv
                       + ix[4] * a.nv + ix[5]]

\* the extents the array was given, dimension by dimension
Extents(a) ==
    CASE a.rank = 1 -> <<a._size>>
      [] a.rank = 2 -> <<a.nx, a.ny>>
      [] a.rank = 3 -> <<a.nx, a.ny, a.nz>>
      [] a.rank = 4 -> <<a.nx, a.ny, a.nz, a.nw>>
      [] a.rank = 5 -> <<a.nx, a.ny, a.nz, a.nw, a.nv>>

Ranks == 1..5

NoAccess == [ix |-> <<>>, outcome |-> "none", offset |-> -1]

\* array2(nx0, ny0), ...: the array gets its shape and a buffer
Construct ==
    /\ pc = "declared"
    /\ \E n \in [1 .. shape.rank -> 0 .. MaxExtent] : shape' = Dimension(n)
    /\ pc' = "allocated"
    /\ UNCHANGED <<NDEBUG, access, arrays, heap, call, binop, idleArr>>

\* a (ix, iy, ...): an element, the fault of ArrayExit, or, where the build
\* checks nothing, a position outside the buffer
Access ==
    /\ pc \in {"declared", "allocated"}
    /\ \E ix \in [1 .. shape.rank -> -1 .. MaxExtent] :
         /\ \A k \in 1 .. shape.rank : ix[k] <= Extents(shape)[k]
         /\ LET e == Element(shape, ix)
            IN  access' =
                  IF e.fault
                  THEN [ix |-> ix, outcome |-> "ArrayExit", offset |-> -1]
                  ELSE IF e.offset \in 0 .. (shape._size - 1)
                  THEN [ix |-> ix, outcome |-> "element",
                        offset |-> e.offset]
                  ELSE [ix |-> ix, outcome |-> "undefined",
                        offset |-> e.offset]
    /\ pc' = "accessed"
    /\ UNCHANGED <<NDEBUG, shape, arrays, heap, call, binop, idleArr>>

InitAccess ==
    /\ NoMap
    /\ pc = "declared"
    /\ NoCalls
    /\ NoIterators
    /\ NoCoefficients
    /\ NoWorkers
    /\ NoDevice
    /\ NDEBUG \in BOOLEAN
    /\ \E rank \in Ranks : shape = Declared(rank)
    /\ access = NoAccess
    /\ arrays = <<>>
    /\ heap = <<>>
    /\ call = <<>>
    /\ binop = <<>>
    /\ mem = <<>>

NextAccess == Construct \/ Access

SpecAccess == InitAccess /\ [][NextAccess]_vars

----------------------------------------------------------------------------
(* Array.h: ownership of the buffer of an array1.  Two arrays A and B and a
   buffer of the caller; heap[b] tells for buffer b how it was acquired, by
   which array, its length, its content and how often it was released. *)

\* largest number of elements of an array
MaxLen == 2
\* largest number of buffers, the caller's included
MaxBuffers == 4
\* largest number of calls made on the arrays
MaxCalls == 3

\* enum alloc_state
unallocated == 0
allocated == 1
temporary == 2
aligned == 4

\* content of an element nothing was stored in
Indeterminate == -1

Names == {"A", "B"}

\* the alignments the arrays are constructed with
Alignments == {0, 16}

\* array1::test
test(state, flag) == (state \div flag) % 2 = 1

\* array1::clear
clear(state, flag) == IF test(state, flag) THEN state - flag ELSE state

\* array1::set
set(state, flag) == IF test(state, flag) THEN state ELSE state + flag

\* delete [] v, deleteAlign(v, _size)
Release(h, b, how) ==
    [h EXCEPT ![b].frees = @ + 1, ![b].released = how]

\* array1::Deallocate
Deallocate(a, h) ==
    IF test(a.state, allocated)
    THEN [arr |-> [a EXCEPT !.state = unallocated],
          heap |-> Release(h, a.v,
                           IF test(a.state, aligned)
                           THEN "deleteAlign" ELSE "delete[]")]
    ELSE [arr |-> a, heap |-> h]

\* v = new T[_size], newAlign(v, _size, align)
Acquire(h, kind, len, by, content) ==
    Append(h, [kind |-> kind, len |-> len, by |-> by, frees |-> 0,
               released |-> "", data |-> content])

\* array1::Activate
Activate(a, h, align, by) ==
    LET fresh == [j \in 1 .. a._size |-> Indeterminate]
    IN  IF align # 0
        THEN [arr |-> [a EXCEPT !.v = Len(h) + 1, !.off = 0,
                                !.state = set(set(a.state, allocated),
                                              aligned)],
              heap |-> Acquire(h, "newAlign", a._size, by, fresh)]
        ELSE [arr |-> [a EXCEPT !.v = Len(h) + 1, !.off = 0,
                                !.state = set(a.state, allocated)],
              heap |-> Acquire(h, "new[]", a._size, by, fresh)]

\* array1::__checkActivate
__checkActivate(a, h, align, by) ==
    IF NDEBUG
    THEN Activate(a, h, align, by)
    ELSE LET d == Deallocate(a, h)
         IN  Activate(d.arr, d.heap, align, by)

\* array1::Allocate(nx0, align)
Allocate(a, h, nx0, align, by) ==
    __checkActivate([a EXCEPT !._size = nx0], h, align, by)

\* can n elements of buffer b be used, from position off on
Usable(h, b, off, n) ==
    /\ b \in 1 .. Len(h)
    /\ h[b].frees = 0
    /\ off + n <= h[b].len

\* array1::Load(const T *a): v[i] = a[i] for i < _size, in this order
RECURSIVE Load(_, _, _, _, _, _)
Load(h, to, toff, from, foff, n) ==
    IF n = 0
    THEN h
    ELSE LET before == Load(h, to, toff, from, foff, n - 1)
         IN  [before EXCEPT
                ![to].data[toff + n] = before[from].data[foff + n]]

Entry(op, self, other) ==
    [op |-> op, n |-> call.n + 1, self |-> self, other |-> other,
     v |-> arrays[self].v, state |-> arrays[self].state,
     _size |-> arrays[self]._size,
     frees |-> IF arrays[self].v \in 1 .. Len(heap)
               THEN heap[arrays[self].v].frees ELSE 0,
     other_v |-> arrays[other].v, other_state |-> arrays[other].state,
     other_size |-> arrays[other]._size]

Alive(x) == pc = "arrays" /\ arrays[x].alive /\ call.n < MaxCalls

\* void Hold()
Hold(x) ==
    /\ Alive(x)
    /\ arrays' =
         [arrays EXCEPT
            ![x].state = IF test(@, allocated) THEN temporary ELSE @]
    /\ call' = Entry("Hold", x, x)
    /\ UNCHANGED <<pc, NDEBUG, shape, access, heap, binop, idleArr>>

\* void Purge() const
Purge(x) ==
    /\ Alive(x)
    /\ IF test(arrays[x].state, temporary)
       THEN LET d == Deallocate(arrays[x], heap)
            IN  /\ arrays' =
                     [arrays EXCEPT ![x] = [d.arr EXCEPT !.state = unallocated]]
                /\ heap' = d.heap
       ELSE UNCHANGED <<arrays, heap>>
    /\ call' = Entry("Purge", x, x)
    /\ UNCHANGED <<pc, NDEBUG, shape, access, binop, idleArr>>

\* array1<T>& operator = (const array1<T>& A), called as x = y
Assign(x, y) ==
    /\ x # y
    /\ Alive(x)
    /\ Alive(y)
    /\ arrays[x]._size = arrays[y]._size \/ Len(heap) < MaxBuffers
    /\ LET resized ==
             IF arrays[x]._size # arrays[y]._size
             THEN LET d == Deallocate(arrays[x], heap)
                  IN  Allocate(d.arr, d.heap, arrays[y]._size, 0, x)
             ELSE [arr |-> arrays[x], heap |-> heap]
           n == resized.arr._size
           to == resized.arr.v
           toff == resized.arr.off
           from == arrays[y].v
           foff == arrays[y].off
       IN  IF /\ Usable(resized.heap, to, toff, n)
              /\ Usable(resized.heap, from, foff, n)
           THEN LET loaded == Load(resized.heap, to, toff, from, foff, n)
                    purged ==
                      IF test(arrays[y].state, temporary)
                      THEN LET d == Deallocate(arrays[y], loaded)
                           IN  [arr |-> [d.arr EXCEPT !.state = unallocated],
                                heap |-> d.heap]
                      ELSE [arr |-> arrays[y], heap |-> loaded]
                IN  /\ arrays' =
                         [arrays EXCEPT ![x] = resized.arr, ![y] = purged.arr]
                    /\ heap' = purged.heap
                    /\ pc' = pc
           ELSE /\ arrays' = [arrays EXCEPT ![x] = resized.arr]
                /\ heap' = resized.heap
                /\ pc' = "undefined"
    /\ call' = Entry("operator=", x, y)
    /\ UNCHANGED <<NDEBUG, shape, access, binop, idleArr>>

\* void Dimension(unsigned int nx0)
DimensionN(x) ==
    /\ Alive(x)
    /\ \E nx0 \in 1 .. MaxLen :
         arrays' = [arrays EXCEPT ![x]._size = nx0]
    /\ call' = Entry("Dimension(n)", x, x)
    /\ UNCHANGED <<pc, NDEBUG, shape, access, heap, binop, idleArr>>

\* void Dimension(unsigned int nx0, T *v0), v0 the buffer of the caller
DimensionV0(x) ==
    /\ Alive(x)
    /\ \E nx0 \in 1 .. MaxLen :
         arrays' =
           [arrays EXCEPT ![x]._size = nx0, ![x].v = 1, ![x].off = 0,
                          ![x].state = clear(@, allocated)]
    /\ call' = Entry("Dimension(n,v0)", x, x)
    /\ UNCHANGED <<pc, NDEBUG, shape, access, heap, binop, idleArr>>

\* void Dimension(const array1<T>& A), called as x.Dimension(y)
DimensionA(x, y) ==
    /\ x # y
    /\ Alive(x)
    /\ Alive(y)
    /\ arrays' =
         [arrays EXCEPT
            ![x]._size = arrays[y]._size, ![x].v = arrays[y].v,
            ![x].off = arrays[y].off,
            ![x].state = IF test(arrays[y].state, temporary)
                         THEN temporary ELSE unallocated]
    /\ call' = Entry("Dimension(A)", x, y)
    /\ UNCHANGED <<pc, NDEBUG, shape, access, heap, binop, idleArr>>

\* virtual ~array1()
Destroy(x) ==
    /\ Alive(x)
    /\ LET d == Deallocate(arrays[x], heap)
       IN  /\ arrays' = [arrays EXCEPT ![x] = [d.arr EXCEPT !.alive = FALSE]]
           /\ heap' = d.heap
    /\ call' = Entry("~array1", x, x)
    /\ UNCHANGED <<pc, NDEBUG, shape, access, binop, idleArr>>

\* the buffer of the caller, then A and B as their constructors leave them:
\* array1(first, last) copies a range, array1(nx0, align) stores nothing
InitOwn ==
    /\ NoMap
    /\ pc = "arrays"
    /\ NoCalls
    /\ NoIterators
    /\ NoCoefficients
    /\ NoWorkers
    /\ NoDevice
    /\ NDEBUG \in BOOLEAN
    /\ shape = <<>>
    /\ access = <<>>
    /\ call = [op |-> "none", n |-> 0]
    /\ binop = <<>>
    /\ mem = <<>>
    /\ \E na \in 1 .. MaxLen, nb \in 1 .. MaxLen,
          aa \in Alignments, ab \in Alignments :
         LET none == [v |-> 0, off |-> 0, _size |-> 0,
                      state |-> unallocated, alive |-> TRUE]
             ext == <<[kind |-> "external", len |-> MaxLen, by |-> "caller",
                       frees |-> 0, released |-> "",
                       data |-> [j \in 1 .. MaxLen |-> 30 + j]]>>
             a == Allocate(none, ext, na, aa, "A")
             ha == IF aa = 0
                   THEN [a.heap EXCEPT ![2].data = [j \in 1 .. na |-> 10 + j]]
                   ELSE a.heap
             b == Allocate(none, ha, nb, ab, "B")
             hb == IF ab = 0
                   THEN [b.heap EXCEPT ![3].data = [j \in 1 .. nb |-> 20 + j]]
                   ELSE b.heap
         IN  /\ arrays = [x \in Names |-> IF x = "A" THEN a.arr ELSE b.arr]
             /\ heap = hb

NextOwn ==
    \E x \in Names :
        \/ Hold(x)
        \/ Purge(x)
        \/ DimensionN(x)
        \/ DimensionV0(x)
        \/ Destroy(x)
        \/ \E y \in Names : Assign(x, y) \/ DimensionA(x, y)

SpecOwn == InitOwn /\ [][NextOwn]_vars

----------------------------------------------------------------------------
(* Array.h: the remaining operations of array1 that acquire, release or
   replace the buffer, and every public operation in any order *)

\* array1::Reallocate(nx0, align)
Reallocate(a, h, nx0, align, by) ==
    LET d == Deallocate(a, h)
    IN  Allocate(d.arr, d.heap, nx0, align, by)

\* void Allocate(unsigned int nx0, size_t align=0)
CallAllocate(x) ==
    /\ Alive(x)
    /\ Len(heap) < MaxBuffers
    /\ \E nx0 \in 1 .. MaxLen, align \in Alignments :
         LET r == Allocate(arrays[x], heap, nx0, align, x)
         IN  /\ arrays' = [arrays EXCEPT ![x] = r.arr]
             /\ heap' = r.heap
    /\ call' = Entry("Allocate", x, x)
    /\ UNCHANGED <<pc, NDEBUG, shape, access, binop, idleArr>>

\* void Reallocate(unsigned int nx0, size_t align=0)
CallReallocate(x) ==
    /\ Alive(x)
    /\ Len(heap) < MaxBuffers
    /\ \E nx0 \in 1 .. MaxLen, align \in Alignments :
         LET r == Reallocate(arrays[x], heap, nx0, align, x)
         IN  /\ arrays' = [arrays EXCEPT ![x] = r.arr]
             /\ heap' = r.heap
    /\ call' = Entry("Reallocate", x, x)
    /\ UNCHANGED <<pc, NDEBUG, shape, access, binop, idleArr>>

\* void Deallocate() const
CallDeallocate(x) ==
    /\ Alive(x)
    /\ LET d == Deallocate(arrays[x], heap)
       IN  /\ arrays' = [arrays EXCEPT ![x] = d.arr]
           /\ heap' = d.heap
    /\ call' = Entry("Deallocate", x, x)
    /\ UNCHANGED <<pc, NDEBUG, shape, access, binop, idleArr>>

\* void Set(T *a), a the buffer of the caller
Set(x) ==
    /\ Alive(x)
    /\ arrays' =
         [arrays EXCEPT ![x].v = 1, ![x].off = 0,
                        ![x].state = clear(@, allocated)]
    /\ call' = Entry("Set", x, x)
    /\ UNCHANGED <<pc, NDEBUG, shape, access, heap, binop, idleArr>>

\* void Freeze()
Freeze(x) ==
    /\ Alive(x)
    /\ arrays' = [arrays EXCEPT ![x].state = unallocated]
    /\ call' = Entry("Freeze", x, x)
    /\ UNCHANGED <<pc, NDEBUG, shape, access, heap, binop, idleArr>>

NextAlloc ==
    \E x \in Names :
        \/ CallAllocate(x)
        \/ CallReallocate(x)
        \/ CallDeallocate(x)
        \/ Set(x)
        \/ Freeze(x)
        \/ Hold(x)
        \/ Purge(x)
        \/ DimensionN(x)
        \/ DimensionV0(x)
        \/ Destroy(x)
        \/ \E y \in Names : Assign(x, y) \/ DimensionA(x, y)

SpecAlloc == InitOwn /\ [][NextAlloc]_vars

----------------------------------------------------------------------------
\* Viewing arrays: arrays that hold a pointer into a buffer another array
\* or the caller owns.

\* array1(const array1<T>& A) : v(A.v), _size(A._size),
\*                              state(A.test(temporary))
CopyConstruct(x, y) ==
    /\ pc = "arrays"
    /\ call.n < MaxCalls
    /\ ~arrays[x].alive
    /\ arrays[y].alive
    /\ arrays' =
         [arrays EXCEPT
            ![x] = [v |-> arrays[y].v, off |-> arrays[y].off,
                    _size |-> arrays[y]._size,
                    state |-> IF test(arrays[y].state, temporary)
                              THEN temporary ELSE unallocated,
                    alive |-> TRUE]]
    /\ call' = Entry("array1(A)", x, y)
    /\ UNCHANGED <<pc, NDEBUG, shape, access, heap, binop, idleArr>>

\* array2::operator [] (const int ix): array1<T>(ny, this->v + ix*ny),
\* y read as an array2 of nx rows of ny elements
RowView(x, y) ==
    /\ pc = "arrays"
    /\ call.n < MaxCalls
    /\ ~arrays[x].alive
    /\ arrays[y].alive
    /\ \E nx \in 1 .. MaxLen, ny \in 1 .. MaxLen :
         /\ nx * ny = arrays[y]._size
         /\ \E ix \in 0 .. nx - 1 :
              arrays' =
                [arrays EXCEPT
                   ![x] = [v |-> arrays[y].v,
                           off |-> arrays[y].off + ix * ny,
                           _size |-> ny, state |-> unallocated,
                           alive |-> TRUE]]
    /\ call' = Entry("operator[]", x, y)
    /\ UNCHANGED <<pc, NDEBUG, shape, access, heap, binop, idleArr>>

NextView ==
    \E x \in Names :
        \/ CallReallocate(x)
        \/ CallDeallocate(x)
        \/ DimensionV0(x)
        \/ Destroy(x)
        \/ Hold(x)
        \/ \E y \in Names :
              \/ Assign(x, y)
              \/ DimensionA(x, y)
              \/ CopyConstruct(x, y)
              \/ RowView(x, y)

\* A and B as in InitOwn, or A after A.Hold(); A.Reallocate(na)
InitView ==
    /\ NoMap
    /\ pc = "arrays"
    /\ NoCalls
    /\ NoIterators
    /\ NoCoefficients
    /\ NoWorkers
    /\ NoDevice
    /\ NDEBUG \in BOOLEAN
    /\ shape = <<>>
    /\ access = <<>>
    /\ call = [op |-> "none", n |-> 0]
    /\ binop = <<>>
    /\ mem = <<>>
    /\ \E na \in 1 .. MaxLen, nb \in 1 .. MaxLen, held \in BOOLEAN :
         LET none == [v |-> 0, off |-> 0, _size |-> 0,
                      state |-> unallocated, alive |-> TRUE]
             ext == <<[kind |-> "external", len |-> MaxLen, by |-> "caller",
                       frees |-> 0, released |-> "",
                       data |-> [j \in 1 .. MaxLen |-> 30 + j]]>>
             b == Allocate(none, ext, nb, 0, "B")
             a == Allocate(none, b.heap, na, 0, "A")
             hold == [a.arr EXCEPT
                        !.state = IF test(@, allocated) THEN temporary ELSE @]
             r == IF held THEN Reallocate(hold, a.heap, na, 0, "A") ELSE a
         IN  /\ arrays = [x \in Names |-> IF x = "A" THEN r.arr ELSE b.arr]
             /\ heap = r.heap

SpecView == InitView /\ [][NextView]_vars

----------------------------------------------------------------------------
(* Array.h: assignment and compound assignment with an array operand, for
   array1 and array2.  Both operands own a buffer of their size. *)

\* largest extent of an operand
MaxDim == 3

\* the operators with an array operand that each class defines
BinaryOps(rank) ==
    IF rank = 1 THEN {"=", "+=", "-=", "*=", "/="} ELSE {"=", "+=", "-="}

\* number of elements of an operand
Count(ext) == IF Len(ext) = 1 THEN ext[1] ELSE ext[1] * ext[2]

\* array1::CheckEqual: TRUE when it calls ArrayExit
CheckEqual(a, b) == a # b

\* array1::__checkEqual
__checkEqual(a, b) == ~NDEBUG /\ CheckEqual(a, b)

\* for(i=0; i < _size; i++) v[i] op= A(i): A(i) checks i against A's size
Elementwise(n, m) ==
    IF n <= m
    THEN [outcome |-> "completed", modified |-> n, size |-> n]
    ELSE IF __check(m, m)
    THEN [outcome |-> "ArrayExit", modified |-> m, size |-> n]
    ELSE [outcome |-> "undefined", modified |-> n, size |-> n]

\* Load(A()): v[i] = a[i] for i < _size, unchecked
Loaded(n, m) ==
    IF n <= m
    THEN [outcome |-> "completed", modified |-> n, size |-> n]
    ELSE [outcome |-> "undefined", modified |-> n, size |-> n]

\* the operator of the class of that rank, left op right
Binary(rank, op, left, right) ==
    CASE rank = 1 /\ op = "=" ->
           \* sizes differ: Deallocate(), Allocate(A.Size()); then Load
           Loaded(Count(right), Count(right))
      [] rank = 2 /\ op = "=" ->
           IF __checkEqual(left[1], right[1]) \/ __checkEqual(left[2], right[2])
           THEN [outcome |-> "ArrayExit", modified |-> 0, size |-> Count(left)]
           ELSE Loaded(Count(left), Count(right))
      [] OTHER -> Elementwise(Count(left), Count(right))

\* left op right is called
BinaryOp ==
    /\ pc = "operands"
    /\ binop' =
         [binop EXCEPT
            !.result = Binary(binop.rank, binop.op, binop.left, binop.right)]
    /\ pc' = "operated"
    /\ UNCHANGED <<NDEBUG, shape, access, arrays, heap, call, idleArr>>

InitBinary ==
    /\ NoMap
    /\ pc = "operands"
    /\ NoCalls
    /\ NoIterators
    /\ NoCoefficients
    /\ NoWorkers
    /\ NoDevice
    /\ NDEBUG \in BOOLEAN
    /\ shape = <<>>
    /\ access = <<>>
    /\ arrays = <<>>
    /\ heap = <<>>
    /\ call = <<>>
    /\ mem = <<>>
    /\ \E rank \in 1 .. 2 :
         \E op \in BinaryOps(rank),
            left \in [1 .. rank -> 1 .. MaxDim],
            right \in [1 .. rank -> 1 .. MaxDim] :
           binop = [rank |-> rank, op |-> op, left |-> left, right |-> right,
                    result |-> [outcome |-> "none", modified |-> 0,
                                size |-> Count(left)]]

NextBinary == BinaryOp

SpecBinary == InitBinary /\ [][NextBinary]_vars

----------------------------------------------------------------------------
\* Aligned allocation (Array.h, the build without HAVE_POSIX_MEMALIGN):
\* posix_memalign0, free0, newAlign, deleteAlign on a machine whose size_t
\* has WordBits bits.

WordBits == 6

\* size_t arithmetic is modulo Word
Word == 2 ^ WordBits

\* sizeof (void *)
PtrSize == 4

MaxAlign == 17

\* sizeof(T) of the element types: char, double
SizesOfT == {1, 8}

\* the error numbers of <errno.h>
EINVAL == 22

ENOMEM == 12

RECURSIVE BitAnd(_, _)
\* a & b on unsigned values
BitAnd(a, b) ==
    IF a = 0 \/ b = 0
    THEN 0
    ELSE (a % 2) * (b % 2) + 2 * BitAnd(a \div 2, b \div 2)

\* ~a on size_t
BitNot(a) == Word - 1 - a

\* what malloc(n) can return: NULL, or the start of a block of n bytes that
\* is sizeof(void*)-aligned ("Assumes that malloc is at least
\* sizeof(void*)-aligned") and whose end is an address
Malloc(n) ==
    {0} \cup {a \in 1 .. Word - 1 : a % PtrSize = 0 /\ a + n < Word}

\* int posix_memalign0(void **memptr, size_t alignment, size_t size), p0
\* what its malloc returned
posix_memalign0(alignment, size, p0) ==
    IF alignment % PtrSize # 0 \/ BitAnd(alignment, alignment - 1) # 0
    THEN [rc |-> EINVAL, blk |-> 0, p0 |-> 0, memptr |-> 0, slot |-> 0]
    ELSE IF p0 = 0
    THEN [rc |-> ENOMEM, blk |-> (size + alignment) % Word, p0 |-> 0,
          memptr |-> 0, slot |-> 0]
    ELSE LET p == BitAnd((p0 + alignment) % Word, BitNot(alignment - 1))
         IN  [rc |-> 0, blk |-> (size + alignment) % Word, p0 |-> p0,
              memptr |-> p, slot |-> p - PtrSize]

\* the size posix_memalign0 passes to malloc
Requested(alignment, size) ==
    IF alignment % PtrSize # 0 \/ BitAnd(alignment, alignment - 1) # 0
    THEN 0
    ELSE (size + alignment) % Word

\* everything but pc and mem
idleMem ==
    <<build, _xsize, _ysize, angle, _heritage_map, data_in, data_out, i,
      callerVars, coefVars, iterVars, parVars, clVars,
      NDEBUG, shape, access, arrays, heap, call, binop>>

\* template<class T> void newAlign(T *&v, size_t len, size_t align)
newAlign ==
    /\ pc = "request"
    /\ LET size == (mem.len * mem.sizeofT) % Word
       IN  \E p0 \in Malloc(Requested(mem.align, size)) :
             LET r == posix_memalign0(mem.align, size, p0)
             IN  /\ mem' =
                      [mem EXCEPT
                         !.size = size, !.rc = r.rc, !.p0 = r.p0,
                         !.blk = r.blk, !.slot = r.slot,
                         !.v = IF r.rc = 0 THEN r.memptr ELSE @,
                         !.exit = IF r.rc = EINVAL
                                  THEN "Invalid alignment requested"
                                  ELSE IF r.rc = ENOMEM
                                  THEN "Memory limits exceeded"
                                  ELSE "",
                         !.constructed = IF r.rc = 0 THEN mem.len ELSE 0]
                 /\ pc' = IF r.rc = 0 THEN "aligned" ELSE "ArrayExit"
    /\ UNCHANGED idleMem

\* is the slot *((void **) p - 1) inside the block malloc returned
SlotInBlock ==
    /\ mem.p0 <= mem.slot
    /\ mem.slot + PtrSize <= mem.p0 + mem.blk

\* template<class T> void deleteAlign(T *v, size_t len), free0(void *p):
\* the loop from len-1 down to 1 and v[0] run the destructors, free0 frees
\* what it reads from the slot before p; a slot outside the block holds
\* whatever was stored there since
deleteAlign ==
    /\ pc = "aligned"
    /\ \E stored \in IF SlotInBlock THEN {mem.p0}
                                    ELSE {mem.p0, Indeterminate} :
         mem' = [mem EXCEPT
                   !.destroyed = ((mem.len - 1) % Word) + 1,
                   !.freed = IF mem.v # 0 THEN stored ELSE @]
    /\ pc' = "released"
    /\ UNCHANGED idleMem

InitAlign ==
    /\ NoMap
    /\ pc = "request"
    /\ NoCalls
    /\ NoIterators
    /\ NoCoefficients
    /\ NoWorkers
    /\ NoDevice
    /\ NDEBUG = FALSE
    /\ shape = <<>>
    /\ access = <<>>
    /\ arrays = <<>>
    /\ heap = <<>>
    /\ call = <<>>
    /\ binop = <<>>
    /\ \E align \in 1 .. MaxAlign, len \in 0 .. Word - 1,
          sizeofT \in SizesOfT :
         mem = [align |-> align, len |-> len, sizeofT |-> sizeofT,
                size |-> 0, rc |-> 0, p0 |-> 0, blk |-> 0, slot |-> 0,
                v |-> 0, exit |-> "", constructed |-> 0, destroyed |-> 0,
                freed |-> 0]

NextAlign == newAlign \/ deleteAlign

SpecAlign == InitAlign /\ [][NextAlign]_vars

----------------------------------------------------------------------------
\* Offset arrays (Array.h, Array1 and Array2): the array A of the ownership
\* model is an Array1 or Array2, shape holds the members the offset classes
\* add (ox, oy, voff, vtemp) and nx, ny of array2; B is an array1.

MaxOffset == 1

OffsetValues == -MaxOffset .. MaxOffset

\* void Offsets(): voff=v-ox;  vtemp=v-ox*(int) ny; voff=vtemp-oy;
Offsets(o, a) ==
    IF o.rank = 1
    THEN [o EXCEPT !.voff = [b |-> a.v, at |-> a.off - o.ox]]
    ELSE [o EXCEPT !.vtemp = [b |-> a.v, at |-> a.off - o.ox * o.ny],
                   !.voff = [b |-> a.v, at |-> a.off - o.ox * o.ny - o.oy]]

\* an operation of the offset array A is called
OffsetCall(rank) == Alive("A") /\ shape.rank = rank

\* Array1::Dimension(unsigned int nx0, int ox0=0)
Array1Dimension ==
    /\ OffsetCall(1)
    /\ \E nx0 \in 1 .. MaxLen, ox0 \in OffsetValues :
         LET a == [arrays["A"] EXCEPT !._size = nx0]
         IN  /\ arrays' = [arrays EXCEPT !["A"] = a]
             /\ shape' = Offsets([shape EXCEPT !.ox = ox0], a)
    /\ call' = Entry("Array1::Dimension", "A", "A")
    /\ UNCHANGED <<pc, NDEBUG, access, heap, binop, idleArr>>

\* Array1::Dimension(unsigned int nx0, T *v0, int ox0=0), v0 the buffer of
\* the caller
Array1DimensionV0 ==
    /\ OffsetCall(1)
    /\ \E nx0 \in 1 .. MaxLen, ox0 \in OffsetValues :
         LET a == [arrays["A"] EXCEPT !.v = 1, !.off = 0, !._size = nx0]
         IN  /\ arrays' =
                  [arrays EXCEPT
                     !["A"] = [a EXCEPT !.state = clear(@, allocated)]]
             /\ shape' = Offsets([shape EXCEPT !.ox = ox0], a)
    /\ call' = Entry("Array1::Dimension(v0)", "A", "A")
    /\ UNCHANGED <<pc, NDEBUG, access, heap, binop, idleArr>>

\* Array1::Allocate(unsigned int nx0, int ox0=0, size_t align=0)
Array1Allocate ==
    /\ OffsetCall(1)
    /\ Len(heap) < MaxBuffers
    /\ \E nx0 \in 1 .. MaxLen, ox0 \in OffsetValues, align \in Alignments :
         LET r == Allocate(arrays["A"], heap, nx0, align, "A")
         IN  /\ arrays' = [arrays EXCEPT !["A"] = r.arr]
             /\ heap' = r.heap
             /\ shape' = Offsets([shape EXCEPT !.ox = ox0], r.arr)
    /\ call' = Entry("Array1::Allocate", "A", "A")
    /\ UNCHANGED <<pc, NDEBUG, access, binop, idleArr>>

\* Array1::Reallocate(unsigned int nx0, int ox0=0, size_t align=0)
Array1Reallocate ==
    /\ OffsetCall(1)
    /\ Len(heap) < MaxBuffers
    /\ \E nx0 \in 1 .. MaxLen, ox0 \in OffsetValues, align \in Alignments :
         LET r == Reallocate(arrays["A"], heap, nx0, align, "A")
         IN  /\ arrays' = [arrays EXCEPT !["A"] = r.arr]
             /\ heap' = r.heap
             /\ shape' = Offsets([shape EXCEPT !.ox = ox0], r.arr)
    /\ call' = Entry("Array1::Reallocate", "A", "A")
    /\ UNCHANGED <<pc, NDEBUG, access, binop, idleArr>>

\* Array1::Set(T *a), a the buffer of the caller
Array1Set ==
    /\ OffsetCall(1)
    /\ LET a == [arrays["A"] EXCEPT !.v = 1, !.off = 0]
       IN  /\ arrays' =
                [arrays EXCEPT
                   !["A"] = [a EXCEPT !.state = clear(@, allocated)]]
           /\ shape' = Offsets(shape, a)
    /\ call' = Entry("Array1::Set", "A", "A")
    /\ UNCHANGED <<pc, NDEBUG, access, heap, binop, idleArr>>

\* Array1::__check(int i, int n, unsigned int o, ...): Check(i-o, n, ...)
Array1__check(ix, n, o) == ~NDEBUG /\ Check(ix - o, n)

\* the indices the accesses are tried with
OffsetIndices == -MaxOffset - 1 .. MaxLen + MaxOffset

\* T& Array1::operator [] (int ix): __check(ix,_size,ox,1,1); voff[ix]
Array1Index ==
    /\ pc = "arrays"
    /\ shape.rank = 1
    /\ arrays["A"].alive
    /\ \E ix \in OffsetIndices :
         access' =
           IF Array1__check(ix, arrays["A"]._size, shape.ox)
           THEN [ix |-> ix, iy |-> 0, outcome |-> "ArrayExit",
                 b |-> 0, at |-> 0]
           ELSE [ix |-> ix, iy |-> 0, outcome |-> "element",
                 b |-> shape.voff.b, at |-> shape.voff.at + ix]
    /\ pc' = "indexed"
    /\ UNCHANGED <<NDEBUG, shape, arrays, heap, call, binop, idleArr>>

\* Array2::Dimension(nx0, ny0, int ox0=0, int oy0=0)
Array2Dimension ==
    /\ OffsetCall(2)
    /\ \E nx0 \in 1 .. MaxLen, ny0 \in 1 .. MaxLen,
          ox0 \in OffsetValues, oy0 \in OffsetValues :
         LET a == [arrays["A"] EXCEPT !._size = nx0 * ny0]
         IN  /\ arrays' = [arrays EXCEPT !["A"] = a]
             /\ shape' = Offsets([shape EXCEPT !.nx = nx0, !.ny = ny0,
                                               !.ox = ox0, !.oy = oy0], a)
    /\ call' = Entry("Array2::Dimension", "A", "A")
    /\ UNCHANGED <<pc, NDEBUG, access, heap, binop, idleArr>>

\* Array2::Dimension(nx0, ny0, T *v0, int ox0=0, int oy0=0)
Array2DimensionV0 ==
    /\ OffsetCall(2)
    /\ \E nx0 \in 1 .. MaxLen, ny0 \in 1 .. MaxLen,
          ox0 \in OffsetValues, oy0 \in OffsetValues :
         LET a == [arrays["A"] EXCEPT !.v = 1, !.off = 0,
                                      !._size = nx0 * ny0]
         IN  /\ arrays' =
                  [arrays EXCEPT
                     !["A"] = [a EXCEPT !.state = clear(@, allocated)]]
             /\ shape' = Offsets([shape EXCEPT !.nx = nx0, !.ny = ny0,
                                               !.ox = ox0, !.oy = oy0], a)
    /\ call' = Entry("Array2::Dimension(v0)", "A", "A")
    /\ UNCHANGED <<pc, NDEBUG, access, heap, binop, idleArr>>

\* Array2::Allocate(nx0, ny0, int ox0=0, int oy0=0, size_t align=0)
Array2Allocate ==
    /\ OffsetCall(2)
    /\ Len(heap) < MaxBuffers
    /\ \E nx0 \in 1 .. MaxLen, ny0 \in 1 .. MaxLen,
          ox0 \in OffsetValues, oy0 \in OffsetValues, align \in Alignments :
         LET r == Allocate(arrays["A"], heap, nx0 * ny0, align, "A")
         IN  /\ arrays' = [arrays EXCEPT !["A"] = r.arr]
             /\ heap' = r.heap
             /\ shape' = Offsets([shape EXCEPT !.nx = nx0, !.ny = ny0,
                                               !.ox = ox0, !.oy = oy0],
                                 r.arr)
    /\ call' = Entry("Array2::Allocate", "A", "A")
    /\ UNCHANGED <<pc, NDEBUG, access, binop, idleArr>>

\* Array2::Set(T *a), a the buffer of the caller
Array2Set ==
    /\ OffsetCall(2)
    /\ LET a == [arrays["A"] EXCEPT !.v = 1, !.off = 0]
       IN  /\ arrays' =
                [arrays EXCEPT
                   !["A"] = [a EXCEPT !.state = clear(@, allocated)]]
           /\ shape' = Offsets(shape, a)
    /\ call' = Entry("Array2::Set", "A", "A")
    /\ UNCHANGED <<pc, NDEBUG, access, heap, binop, idleArr>>

\* T& Array2::operator () (int ix, int iy): the two checks, then
\* voff[ix*(int) ny+iy]
Array2Index ==
    /\ pc = "arrays"
    /\ shape.rank = 2
    /\ arrays["A"].alive
    /\ \E ix \in OffsetIndices, iy \in OffsetIndices :
         access' =
           IF \/ Array1__check(ix, shape.nx, shape.ox)
              \/ Array1__check(iy, shape.ny, shape.oy)
           THEN [ix |-> ix, iy |-> iy, outcome |-> "ArrayExit",
                 b |-> 0, at |-> 0]
           ELSE [ix |-> ix, iy |-> iy, outcome |-> "element",
                 b |-> shape.voff.b,
                 at |-> shape.voff.at + ix * shape.ny + iy]
    /\ pc' = "indexed"
    /\ UNCHANGED <<NDEBUG, shape, arrays, heap, call, binop, idleArr>>

\* what Array1 and Array2 inherit from array1 and leave as it is:
\* Dimension(const array1<T>& A) by the using-declaration (called by
\* Dimension(Array1<T>& A, const array1<T>& B)), and for Array2
\* Reallocate(unsigned int nx0, size_t align=0)
Inherited ==
    \/ shape.rank \in {1, 2} /\ DimensionA("A", "B")
    \/ shape.rank = 2 /\ CallReallocate("A")

\* A as Array1(nx0, ox0, align) or Array2(nx0, ny0, ox0, oy0, align) leaves
\* it, B as array1(nx0) leaves it, and the buffer of the caller
InitOffset ==
    /\ NoMap
    /\ pc = "arrays"
    /\ NoCalls
    /\ NoIterators
    /\ NoCoefficients
    /\ NoWorkers
    /\ NoDevice
    /\ NDEBUG \in BOOLEAN
    /\ access = <<>>
    /\ call = [op |-> "none", n |-> 0]
    /\ binop = <<>>
    /\ mem = <<>>
    /\ \E rank \in {1, 2}, nx0 \in 1 .. MaxLen, ny0 \in 1 .. MaxLen,
          ox0 \in OffsetValues, oy0 \in OffsetValues :
         LET none == [v |-> 0, off |-> 0, _size |-> 0,
                      state |-> unallocated, alive |-> TRUE]
             ext == <<[kind |-> "external", len |-> MaxLen * MaxLen,
                       by |-> "caller", frees |-> 0, released |-> "",
                       data |-> [j \in 1 .. MaxLen * MaxLen |-> 30 + j]]>>
             a == Allocate(none, ext, IF rank = 1 THEN nx0 ELSE nx0 * ny0,
                           0, "A")
             b == Allocate(none, a.heap, nx0, 0, "B")
         IN  /\ rank = 1 => ny0 = 1 /\ oy0 = 0
             /\ arrays = [x \in Names |-> IF x = "A" THEN a.arr ELSE b.arr]
             /\ heap = b.heap
             /\ shape = Offsets([rank |-> rank, nx |-> nx0, ny |-> ny0,
                                 ox |-> ox0, oy |-> oy0,
                                 voff |-> [b |-> 0, at |-> 0],
                                 vtemp |-> [b |-> 0, at |-> 0]], a.arr)

NextOffset ==
    \/ Array1Dimension
    \/ Array1DimensionV0
    \/ Array1Allocate
    \/ Array1Reallocate
    \/ Array1Set
    \/ Array1Index
    \/ Array2Dimension
    \/ Array2DimensionV0
    \/ Array2Allocate
    \/ Array2Set
    \/ Array2Index
    \/ Inherited

SpecOffset == InitOffset /\ [][NextOffset]_vars

----------------------------------------------------------------------------
\* Shapes of the multi-dimensional arrays (Array.h, array2 to array5): the
\* array A of the ownership model is an array of rank 2 to 5, shape holds
\* the members its class adds to array1 (nx, ny, ..., the strides); B is an
\* array1.

\* nx, ny, ... and the strides as Dimension(nx0, ny0, ...) stores them
Members(n) ==
    [f \in DOMAIN Dimension(n) \ {"_size"} |-> Dimension(n)[f]]

\* the shapes Dimension and Allocate are called with: every nx and ny, the
\* further extents at their largest
ShapesOfRank(rank) ==
    {n \in [1 .. rank -> 1 .. MaxExtent] :
        \A k \in 3 .. rank : n[k] = MaxExtent}

\* a member of the multi-dimensional array A is called
ShapeCall == Alive("A")

\* array2::Dimension(nx0, ny0) ... array5::Dimension(nx0, ..., nv0)
ShapeDimension ==
    /\ ShapeCall
    /\ \E n \in ShapesOfRank(shape.rank) :
         /\ shape' = Members(n)
         /\ arrays' = [arrays EXCEPT !["A"]._size = Dimension(n)._size]
    /\ call' = Entry("arrayN::Dimension", "A", "A")
    /\ UNCHANGED <<pc, NDEBUG, access, heap, binop, idleArr>>

\* array2::Dimension(nx0, ny0, T *v0) ... array5::Dimension(..., T *v0),
\* v0 the buffer of the caller
ShapeDimensionV0 ==
    /\ ShapeCall
    /\ \E n \in ShapesOfRank(shape.rank) :
         /\ shape' = Members(n)
         /\ arrays' =
              [arrays EXCEPT
                 !["A"]._size = Dimension(n)._size,
                 !["A"].v = 1, !["A"].off = 0,
                 !["A"].state = clear(@, allocated)]
    /\ call' = Entry("arrayN::Dimension(v0)", "A", "A")
    /\ UNCHANGED <<pc, NDEBUG, access, heap, binop, idleArr>>

\* array2::Allocate(nx0, ny0, align) ... array5::Allocate(..., align)
ShapeAllocate ==
    /\ ShapeCall
    /\ Len(heap) < MaxBuffers
    /\ \E n \in ShapesOfRank(shape.rank), align \in Alignments :
         LET r == Allocate(arrays["A"], heap, Dimension(n)._size, align, "A")
         IN  /\ shape' = Members(n)
             /\ arrays' = [arrays EXCEPT !["A"] = r.arr]
             /\ heap' = r.heap
    /\ call' = Entry("arrayN::Allocate", "A", "A")
    /\ UNCHANGED <<pc, NDEBUG, access, binop, idleArr>>

\* Null(array1<T>& A): A.Dimension(0)
Null(x) ==
    /\ Alive(x)
    /\ arrays' = [arrays EXCEPT ![x]._size = 0]
    /\ call' = Entry("Null", x, x)
    /\ UNCHANGED <<pc, NDEBUG, shape, access, heap, binop, idleArr>>

\* A.Dimension(B), B an array1: array2 declares it as
\* ArrayExit("Operation not implemented"); array3, array4 and array5 declare
\* none and say using array1<T>::Dimension, so array1::Dimension(const
\* array1<T>&) runs
DimensionFromArray1 ==
    /\ ShapeCall
    /\ Alive("B")
    /\ IF shape.rank = 2
       THEN /\ pc' = "ArrayExit"
            /\ access' = "Operation not implemented"
            /\ UNCHANGED arrays
       ELSE /\ arrays' =
                 [arrays EXCEPT
                    !["A"]._size = arrays["B"]._size,
                    !["A"].v = arrays["B"].v, !["A"].off = arrays["B"].off,
                    !["A"].state = IF test(arrays["B"].state, temporary)
                                   THEN temporary ELSE unallocated]
            /\ UNCHANGED <<pc, access>>
    /\ call' = Entry("arrayN::Dimension(A)", "A", "B")
    /\ UNCHANGED <<NDEBUG, shape, heap, binop, idleArr>>

\* A as array2(nx0, ny0, align) ... array5(nx0, ..., nv0, align) leaves
\* it, B as array1(nx0) leaves it, and the buffer of the caller
InitShape ==
    /\ NoMap
    /\ pc = "arrays"
    /\ NoCalls
    /\ NoIterators
    /\ NoCoefficients
    /\ NoWorkers
    /\ NoDevice
    /\ NDEBUG \in BOOLEAN
    /\ access = ""
    /\ call = [op |-> "none", n |-> 0]
    /\ binop = <<>>
    /\ mem = <<>>
    /\ \E rank \in 2 .. 5, nb \in 1 .. MaxLen, align \in Alignments :
         \E n \in ShapesOfRank(rank) :
           LET none == [v |-> 0, off |-> 0, _size |-> 0,
                        state |-> unallocated, alive |-> TRUE]
               ext == <<[kind |-> "external", len |-> MaxLen,
                         by |-> "caller", frees |-> 0, released |-> "",
                         data |-> [j \in 1 .. MaxLen |-> 30 + j]]>>
               a == Allocate(none, ext, Dimension(n)._size, align, "A")
               b == Allocate(none, a.heap, nb, 0, "B")
           IN  /\ arrays =
                    [x \in Names |-> IF x = "A" THEN a.arr ELSE b.arr]
               /\ heap = b.heap
               /\ shape = Members(n)

\* the members of the array of rank 2 to 5 and those it inherits unchanged
\* from array1
NextShape ==
    \/ ShapeDimension
    \/ ShapeDimensionV0
    \/ ShapeAllocate
    \/ DimensionFromArray1
    \/ DimensionN("A")
    \/ DimensionV0("A")
    \/ CallReallocate("A")
    \/ CallDeallocate("A")
    \/ Null("A")
    \/ Set("A")
    \/ Hold("A")

SpecShape == InitShape /\ [][NextShape]_vars

----------------------------------------------------------------------------
(* Reference values the claims are stated with *)

Lcm(a, b) == (a \div GCD(a, b)) * b

\* least common denominator of the weights of row c at positions below k
RECURSIVE RowDen(_, _)
RowDen(c, k) ==
    IF k = 0 THEN 1 ELSE Lcm(RowDen(c, k - 1), _heritage_map[c][k - 1].weight[2])

\* sum over the positions below k of input value times weight, in units of 1/d
RECURSIVE ScaledSum(_, _, _)
ScaledSum(c, k, d) ==
    IF k = 0 THEN 0
    ELSE LET h == _heritage_map[c][k - 1]
             x == data_in[h.index]
         IN  ScaledSum(c, k - 1, d)
               + (x[1] * h.weight[1] * (d \div h.weight[2])) \div x[2]

\* the weighted sum of row c over the current input field
RowSum(c) == R(ScaledSum(c, _ip, RowDen(c, _ip)), RowDen(c, _ip))

Applying == pc \in {"apply", "done"}

NonZeroEntries(c) == { k \in RowPositions : _heritage_map[c][k].weight # RInt(0) }

----------------------------------------------------------------------------
(* C1: with saturation disabled, the sequential apply() leaves in every cell
   it has processed the weighted sum of the cell's row over the input field,
   and every cell it has not yet processed still holds its old content. *)
C1_SequentialSum ==
    (Applying /\ build.INTERPOL_SATURATING = 0) =>
        \A c \in Cells :
            data_out[c] = IF c < i THEN RowSum(c) ELSE Stale

\* apply() has returned on a map with a row of several weighted sources, and
\* the sum it left there is no trivial one
C1_Witness ==
    /\ pc = "done"
    /\ build.INTERPOL_SATURATING = 0
    /\ \E c \in Cells :
         /\ Cardinality(NonZeroEntries(c)) >= 3
         /\ data_out[c] # RInt(0)
         /\ data_out[c][2] > 1

----------------------------------------------------------------------------
(* C2: a target whose mapped source cell lies outside the grid has a row of
   zero-weight entries only, and apply() writes 0 to it, whatever the input
   field and with the saturating clamp disabled or enabled.  The statement is
   made for the targets whose source cell is outside the grid however a
   negative coordinate is converted, and for the builds whose saturation
   pass reads inside the row (INTERPOL_TYPE 3 and 4) or is disabled. *)
SurelyOutside(c) ==
    \A conv \in NegConversions :
        ~(/\ UIntLess(Id(conv, c \div _ysize, c % _ysize), _xsize)
          /\ UIntLess(Jd(conv, c \div _ysize, c % _ysize), _ysize))

C2_BoundaryPolicy ==
    (build.INTERPOL_SATURATING = 0 \/ build.INTERPOL_TYPE >= 3) =>
        \A c \in Cells :
            SurelyOutside(c) =>
                /\ pc # "start" => NonZeroEntries(c) = {}
                /\ (Applying /\ c < i) => data_out[c] = RInt(0)

\* the part of C2 the code keeps: without the saturating clamp
C2_BoundaryPolicyUnsaturated ==
    build.INTERPOL_SATURATING = 0 => C2_BoundaryPolicy

----------------------------------------------------------------------------
(* C3: with INTERPOL_SATURATING enabled, the value apply() leaves in a cell
   lies between the least and the greatest input value at the designated
   neighbour entries of the cell's row.  The statement is made for the
   interpolation orders whose designated entries lie inside the row. *)
NeighbourValues(c) ==
    { data_in[_heritage_map[c][SatPositions[n]].index] : n \in 1..4 }

IsLeast(v, S) == v \in S /\ \A w \in S : ~DLess(w, v)

IsGreatest(v, S) == v \in S /\ \A w \in S : ~DLess(v, w)

C3_SaturationBound ==
    (Applying /\ build.INTERPOL_SATURATING = 1 /\ build.INTERPOL_TYPE >= 3) =>
        \A c \in Cells :
            c < i =>
                \E lo \in NeighbourValues(c), hi \in NeighbourValues(c) :
                    /\ IsLeast(lo, NeighbourValues(c))
                    /\ IsGreatest(hi, NeighbourValues(c))
                    /\ ~DLess(data_out[c], lo)
                    /\ ~DLess(hi, data_out[c])

----------------------------------------------------------------------------
(* C4: for rotation angle 0 and each ROTATION_TYPE, the mapped source
   coordinate of every target (q_i, p_i) is (q_i, p_i) with fractional
   offsets 0, and apply() reproduces the input field (stated with the
   saturating clamp disabled). *)
ZeroAngle == angle = [cos |-> 5, sin |-> 0]

C4_IdentityTransform ==
    (ZeroAngle /\ pc = "done") =>
        /\ \A q_i \in 0 .. (_xsize - 1), p_i \in 0 .. (_ysize - 1) :
              /\ Qcoord(q_i, p_i) = RInt(q_i)
              /\ Pcoord(q_i, p_i) = RInt(p_i)
              /\ Xiq(q_i, p_i) = RInt(0)
              /\ Xip(q_i, p_i) = RInt(0)
        /\ build.INTERPOL_SATURATING = 0 => data_out = data_in

\* the part of C4 the code keeps: ROTATION_TYPE 1 and 2
C4_IdentityTransformTypes12 ==
    build.ROTATION_TYPE \in {1, 2} => C4_IdentityTransform

----------------------------------------------------------------------------
(* C5: for a fixed map, apply(a*X + b*Y) = a*apply(X) + b*apply(Y) at every
   target cell.  The statement is made for the builds whose saturation pass,
   if enabled, reads inside the row. *)
Linear ==
    \A c \in Cells :
        runs[3].dout[c] =
            RAdd(RMul(RInt(coef[1]), runs[1].dout[c]),
                 RMul(RInt(coef[2]), runs[2].dout[c]))

C5_Linearity == (Len(runs) = 3 /\ build \in BuildsInRow) => Linear

\* C5 as amended: with the saturating clamp disabled, apply() is linear
C5_LinearityUnsaturated ==
    (Len(runs) = 3 /\ build.INTERPOL_SATURATING = 0) => Linear

\* three calls without the clamp on a*X + b*Y with a + b # 1, X and Y no
\* multiples of each other, and a target with several weighted sources
C5_Witness ==
    /\ Len(runs) = 3
    /\ build.INTERPOL_SATURATING = 0
    /\ coef = <<1, 1>>
    /\ \E c \in Cells :
         /\ Cardinality(NonZeroEntries(c)) >= 3
         /\ runs[1].dout[c] # RInt(0)
         /\ runs[2].dout[c] # RInt(0)
         /\ runs[3].dout[c] # RInt(0)
         /\ runs[1].dout[c] # runs[2].dout[c]

----------------------------------------------------------------------------
(* C6: with input and output buffers that do not overlap, the per-cell steps
   of apply(), run in any order and interleaved across the workers, leave the
   output field of the sequential loop; a cell is written only by the step
   for its own index, and the input field and the map are not written. *)
Busy == { workers[w].cell : w \in { v \in Workers : workers[v].phase # "idle" } }

SequentialValue(c) ==
    CellValue(_heritage_map, data_in, c, [k \in {} |-> RInt(0)])

C6_CellsAsSequential ==
    pc \in {"par", "done"} =>
        \A c \in Cells :
            /\ c \notin claimed => data_out[c] = Stale
            /\ (c \in claimed /\ c \notin Busy) => data_out[c] = SequentialValue(c)

C6_OwnCellOnly ==
    pc = "par" =>
        /\ data_in' = data_in
        /\ _heritage_map' = _heritage_map
        /\ \A c \in Cells : data_out'[c] # data_out[c] => c \in Busy \cup Busy'

C6_PerCellIndependence == []C6_CellsAsSequential /\ [][C6_OwnCellOnly]_vars

\* two workers are in the middle of the bodies of different cells while a
\* cell with a row of several weighted sources is finished
C6_Witness ==
    /\ pc = "par"
    /\ Cardinality(Busy) >= 2
    /\ \E c \in claimed \ Busy :
         /\ Cardinality(NonZeroEntries(c)) >= 3
         /\ data_out[c] # RInt(0)

----------------------------------------------------------------------------
(* C7: on the accelerator path, with and without INOVESA_SYNC_CL, apply()
   has not returned before the dispatched kernel has run all sizeX*sizeY
   work-items and the host's output field holds the kernel's results. *)
KernelCompleted ==
    /\ items = Cells
    /\ \A k \in 1 .. Len(queue) : queue[k] # "applyHM"

ResultsVisible == \A c \in Cells : data_out[c] = KernelValue(c)

Returned == pc = "done" /\ data_buf_out # NoField

C7_AcceleratorSynchronization ==
    Returned => (KernelCompleted /\ ResultsVisible)

\* the same for the builds with INOVESA_SYNC_CL, where both transfers are
\* compiled in
C7_SynchronizedWithSyncCL ==
    (Returned /\ INOVESA_SYNC_CL = 1) =>
        /\ KernelCompleted
        /\ ResultsVisible
        /\ data_buf_in = data_in

C7_SyncReturned ==
    /\ Returned
    /\ INOVESA_SYNC_CL = 1
    /\ \E c \in Cells : data_out[c] \notin {RInt(0), Stale}

----------------------------------------------------------------------------
(* C8: in a checked build (NDEBUG not defined), an access with indices
   (i1..in) to an array of rank n in 1..5 yields an element exactly when
   0 <= ik < extent_k for every k, and then the element at the row-major
   position; every other access raises the fault of ArrayExit and touches
   no element. *)
RECURSIVE RowMajor(_, _, _)
RowMajor(ix, ext, k) ==
    IF k = 0 THEN 0 ELSE RowMajor(ix, ext, k - 1) * ext[k] + ix[k]

InRange(ix, ext) == \A k \in 1 .. Len(ext) : 0 <= ix[k] /\ ix[k] < ext[k]

C8_CheckedAccess ==
    (~NDEBUG /\ access # <<>> /\ access.outcome # "none") =>
        LET ext == Extents(shape)
        IN  IF InRange(access.ix, ext)
            THEN /\ access.outcome = "element"
                 /\ access.offset = RowMajor(access.ix, ext, Len(ext))
            ELSE /\ access.outcome = "ArrayExit"
                 /\ access.offset = -1

\* a checked access to the last element of an array of rank 5 with more
\* than one element in several dimensions
C8_Witness ==
    /\ ~NDEBUG
    /\ access # <<>>
    /\ shape.rank = 5
    /\ access.outcome = "element"
    /\ Cardinality({k \in 1 .. 5 : access.ix[k] > 0}) >= 3
    /\ access.offset = shape._size - 1

\* a checked access whose first index is in range and whose last index is
\* the extent itself is refused
C8_WitnessFault ==
    /\ ~NDEBUG
    /\ access # <<>>
    /\ shape.rank = 2
    /\ access.ix = <<0, shape.ny>>
    /\ shape.nx > 1
    /\ access.outcome = "ArrayExit"

----------------------------------------------------------------------------
(* C9: an assignment x = y between arrays of the same size copies every
   element of y into x; if y was temporary (Hold() was called on y while it
   owned its buffer), the assignment releases y's buffer, which is then
   freed exactly once, and leaves y unallocated. *)
Assigned ==
    /\ pc = "arrays"
    /\ call # <<>>
    /\ call.op = "operator="
    /\ call._size = call.other_size

Copied ==
    \A j \in 1 .. call._size :
        heap[arrays[call.self].v].data[j] = heap[call.other_v].data[j]

\* the source of the assignment had been put on hold while it owned the
\* buffer it had acquired itself
FromTemporary ==
    /\ test(call.other_state, temporary)
    /\ heap[call.other_v].by = call.other

C9_AssignReleasesTemporary ==
    Assigned =>
        /\ Copied
        /\ FromTemporary =>
             /\ heap[call.other_v].frees = 1
             /\ arrays[call.other].state = unallocated

\* what the assignment does do: it copies, and leaves a temporary source
\* with no flags
C9_AssignCopies ==
    Assigned =>
        /\ Copied
        /\ FromTemporary => arrays[call.other].state = unallocated

C9_AssignedFromTemporary ==
    /\ Assigned
    /\ FromTemporary
    /\ heap[call.other_v].data[1] # Indeterminate

(* C10: an array that owns its buffer (allocated, aligned or not) frees it
   when it is destroyed and when it is re-dimensioned by Dimension(n),
   Dimension(n, v0) or Dimension(A): after the call the buffer it owned has
   been freed. *)
Redimensioned ==
    /\ call # <<>>
    /\ call.op \in {"Dimension(n)", "Dimension(n,v0)", "Dimension(A)"}
    /\ test(call.state, allocated)

Destroyed ==
    /\ call # <<>>
    /\ call.op = "~array1"
    /\ test(call.state, allocated)

C10_OwnedBufferFreed ==
    (Redimensioned \/ Destroyed) => heap[call.v].frees = 1

\* after a re-dimensioning the buffer is freed or the array still owns it
C10_NoOwnedBufferDropped ==
    Redimensioned =>
        \/ heap[call.v].frees = 1
        \/ /\ arrays[call.self].v = call.v
           /\ test(arrays[call.self].state, allocated)

\* the part about destruction alone
C10_DestructionFrees == Destroyed => heap[call.v].frees = 1

\* a buffer is never released twice
C10_NoDoubleFree == \A b \in 1 .. Len(heap) : heap[b].frees <= 1

----------------------------------------------------------------------------
(* C11: after any sequence of Allocate, Reallocate, Dimension, Set,
   assignment and Deallocate, with zero and non-zero alignments, in checked
   and NDEBUG builds, a buffer from newAlign is released only by deleteAlign
   and a buffer from new[] only by delete[], and an array that owns a buffer
   has the aligned flag exactly when that buffer came from newAlign. *)
ReleasedAsAcquired(b) ==
    heap[b].released # "" =>
        \/ heap[b].kind = "newAlign" /\ heap[b].released = "deleteAlign"
        \/ heap[b].kind = "new[]" /\ heap[b].released = "delete[]"

FlagAsAcquired(x) ==
    (arrays[x].alive /\ test(arrays[x].state, allocated)) =>
        (test(arrays[x].state, aligned) <=> heap[arrays[x].v].kind = "newAlign")

C11_AllocatorPairing ==
    /\ \A b \in 1 .. Len(heap) : ReleasedAsAcquired(b)
    /\ \A x \in DOMAIN arrays : FlagAsAcquired(x)

\* the release alone, in the builds that check
C11_PairingChecked ==
    ~NDEBUG => \A b \in 1 .. Len(heap) : ReleasedAsAcquired(b)

----------------------------------------------------------------------------
(* C12: whenever Reallocate, or Allocate on an array that holds a buffer it
   acquired, has obtained a new buffer, the buffer the array acquired
   earlier has been freed, after Hold() too and in checked and NDEBUG
   builds: an array has at most one live buffer that it acquired. *)
LiveBy(x) == { b \in 1 .. Len(heap) : heap[b].by = x /\ heap[b].frees = 0 }

Obtained ==
    /\ call.n > 0
    /\ call.op \in {"Reallocate", "Allocate"}

C12_ReleaseBeforeAcquire ==
    Obtained => Cardinality(LiveBy(call.self)) <= 1

\* Reallocate alone, in the builds that check
C12_ReallocateChecked ==
    (Obtained /\ call.op = "Reallocate" /\ ~NDEBUG) =>
        Cardinality(LiveBy(call.self)) <= 1

\* Reallocate on an array that owns its buffer, which was not put on hold
C12_ReallocateOwning ==
    (Obtained /\ call.op = "Reallocate" /\ test(call.state, allocated)) =>
        heap[call.v].frees = 1

----------------------------------------------------------------------------
(* C14: after any sequence of public operations the state flags of an array
   are none (unallocated or viewing), allocated (owning), allocated and
   aligned (aligned-owning), or temporary; aligned is never set without
   allocated. *)
LegalStates == {unallocated, allocated, allocated + aligned, temporary}

C14_OwnershipState ==
    \A x \in DOMAIN arrays : arrays[x].alive => arrays[x].state \in LegalStates

\* the same for the arrays that were never constructed with an alignment
C14_OwnershipStateUnaligned ==
    (\A b \in 1 .. Len(heap) : heap[b].kind # "newAlign") => C14_OwnershipState

----------------------------------------------------------------------------
(* C13: in a checked build, an assignment or compound assignment between
   two arrays whose shapes differ raises a fault and does not complete. *)
Operated == binop # <<>> /\ binop.result.outcome # "none"

C13_ShapeMismatchFault ==
    (Operated /\ ~NDEBUG /\ binop.left # binop.right) =>
        binop.result.outcome = "ArrayExit"

\* the assignment of array2, which compares the extents
C13_Array2AssignmentFault ==
    (Operated /\ ~NDEBUG /\ binop.left # binop.right
       /\ binop.rank = 2 /\ binop.op = "=") =>
        /\ binop.result.outcome = "ArrayExit"
        /\ binop.result.modified = 0

\* the compound assignments fault when the right operand is the smaller,
\* after they changed the elements up to its size, and complete otherwise
C13_CompoundFault ==
    (Operated /\ ~NDEBUG /\ binop.op # "=") =>
        IF Count(binop.left) > Count(binop.right)
        THEN /\ binop.result.outcome = "ArrayExit"
             /\ binop.result.modified = Count(binop.right)
        ELSE binop.result.outcome = "completed"

----------------------------------------------------------------------------
\* the last call was one of the four of the claim, made by a viewing array
ViewCalled ==
    /\ call.op \in {"~array1", "Deallocate", "Reallocate", "operator="}
    /\ call.v \in 1 .. Len(heap)
    /\ heap[call.v].by # call.self

\* C15: a viewing array never frees the memory it points to: the
\* destruction, Deallocate, Reallocate and assignment of an array that
\* points into a buffer it did not allocate (made by Dimension(n, v0),
\* Dimension(A), the copy constructor or operator[]) leave that buffer
\* unfreed, and no buffer is freed more than once.
C15_ViewsNeverFree ==
    /\ \A b \in 1 .. Len(heap) : heap[b].frees <= 1
    /\ ViewCalled => heap[call.v].frees = call.frees

\* the operand of the assignment owned the buffer the view points to and
\* was marked temporary
OperandPurged ==
    /\ call.op = "operator="
    /\ call.other_v = call.v
    /\ test(call.other_state, allocated)
    /\ test(call.other_state, temporary)

\* the calls of a viewing array leave the buffer unfreed unless the operand
\* of an assignment is purged
C15_ViewsFreeOnlyByPurge ==
    (ViewCalled /\ ~OperandPurged) => heap[call.v].frees = call.frees

\* a buffer is freed only by the array that allocated it, while that array
\* points to it with the allocated flag set
C15_FreedByOwner ==
    [][\A b \in 1 .. Len(heap) :
          heap'[b].frees # heap[b].frees =>
              /\ heap[b].by \in {call'.self, call'.other}
              /\ arrays[heap[b].by].v = b
              /\ test(arrays[heap[b].by].state, allocated)]_vars

\* a view of the buffer of the other array was destroyed or reallocated,
\* and the buffer is still unfreed and still the other array's
C15_ViewDestroyed ==
    /\ call.op \in {"~array1", "Reallocate"}
    /\ call.v \in 2 .. Len(heap)
    /\ heap[call.v].by # call.self
    /\ heap[call.v].frees = 0
    /\ arrays[heap[call.v].by].alive
    /\ arrays[heap[call.v].by].v = call.v

----------------------------------------------------------------------------
\* newAlign returned an address
Aligned == pc \in {"aligned", "released"}

\* the alignment is a power of two and a multiple of sizeof(void*)
ValidAlignment(a) ==
    /\ a % PtrSize = 0
    /\ \E k \in 0 .. WordBits : a = 2 ^ k

\* the address is a multiple of the alignment, the slot before it and the
\* len elements after it are inside the block malloc returned
WellPlaced ==
    /\ mem.v % mem.align = 0
    /\ SlotInBlock
    /\ mem.slot + PtrSize = mem.v
    /\ mem.v + mem.len * mem.sizeofT <= mem.p0 + mem.blk

\* C16: for every alignment > 0 and size, newAlign/posix_memalign0 either
\* returns an address that is a multiple of the alignment, with the slot
\* [p - sizeof(void*), p) and the range [p, p + size) inside the block of
\* malloc and free0 releasing exactly that block, or reports
\* "Invalid alignment requested" for an alignment that is not a power of two
\* and a multiple of sizeof(void*), "Memory limits exceeded" when malloc
\* fails.
C16_AlignedAllocation ==
    /\ Aligned => ValidAlignment(mem.align) /\ WellPlaced
    /\ pc = "released" => mem.freed = mem.p0
    /\ pc = "ArrayExit" =>
         mem.exit = IF ValidAlignment(mem.align)
                    THEN "Memory limits exceeded"
                    ELSE "Invalid alignment requested"
    /\ (pc # "request" /\ ~ValidAlignment(mem.align)) => pc = "ArrayExit"

\* the same for the requests whose len*sizeof(T) + alignment fits in size_t
C16_AlignedWithoutWrap ==
    mem.len * mem.sizeofT + mem.align < Word => C16_AlignedAllocation

\* an address was returned for a request that fits, and released
C16_Released ==
    /\ pc = "released"
    /\ mem.len * mem.sizeofT + mem.align < Word
    /\ mem.len > 0
    /\ mem.freed = mem.p0

----------------------------------------------------------------------------
\* the element an index refers to was computed
Indexed == pc = "indexed" /\ access.outcome = "element"

\* ox <= ix < ox+n, and for rank 2 also oy <= iy < oy+ny
InOffsetRange ==
    IF shape.rank = 1
    THEN shape.ox <= access.ix /\ access.ix < shape.ox + arrays["A"]._size
    ELSE /\ shape.ox <= access.ix /\ access.ix < shape.ox + shape.nx
         /\ shape.oy <= access.iy /\ access.iy < shape.oy + shape.ny

\* physical element ix-ox, or (ix-ox)*ny + (iy-oy), of the current buffer
PhysicalElement ==
    [b |-> arrays["A"].v,
     at |-> arrays["A"].off +
            IF shape.rank = 1
            THEN access.ix - shape.ox
            ELSE (access.ix - shape.ox) * shape.ny + (access.iy - shape.oy)]

\* the offset pointer is the current buffer moved back by the offsets
OffsetsMatch == shape = Offsets(shape, arrays["A"])

\* the operations Array1 and Array2 define themselves
OwnOperations ==
    {"Array1::Dimension", "Array1::Dimension(v0)", "Array1::Allocate",
     "Array1::Reallocate", "Array1::Set", "Array2::Dimension",
     "Array2::Dimension(v0)", "Array2::Allocate", "Array2::Set"}

\* C17: in a checked build, operator[](ix) of an Array1 and operator()(ix,
\* iy) of an Array2 succeed exactly for the indices inside the offset
\* ranges, and then (in every build) refer to physical element ix-ox, or
\* (ix-ox)*ny + (iy-oy), of the current buffer, whatever Allocate,
\* Reallocate, Set and Dimension calls came before.
C17_OffsetAccess ==
    /\ (pc = "indexed" /\ ~NDEBUG) =>
         (access.outcome = "element" <=> InOffsetRange)
    /\ (Indexed /\ InOffsetRange) =>
         [b |-> access.b, at |-> access.at] = PhysicalElement

\* the same for the accesses made while the offset pointer matches
C17_OffsetAccessMatching ==
    OffsetsMatch => C17_OffsetAccess

\* every operation that Array1 and Array2 define leaves the offset pointer
\* matching the buffer
C17_OwnOperationsMatch ==
    [][call'.n # call.n /\ call'.op \in OwnOperations => OffsetsMatch']_vars

\* an element was reached through a matching offset pointer, the offset
\* not zero
C17_IndexedWithOffset ==
    /\ Indexed
    /\ OffsetsMatch
    /\ shape.ox # 0
    /\ call.n > 0

----------------------------------------------------------------------------
\* Size() and Nx()*Ny() of the 2-D array A
Size == arrays["A"]._size

NxNy == shape.nx * shape.ny

\* the operations array2 defines itself
ShapeOperations ==
    {"none", "arrayN::Dimension", "arrayN::Dimension(v0)", "arrayN::Allocate"}

\* C18: for a 2-D array, Size() equals Nx()*Ny() after construction,
\* Allocate and Dimension, and after every later sequence of public
\* operations of the 2-D array, the inherited Dimension(n), Reallocate(n)
\* and Null included.
C18_ShapeInvariant ==
    shape.rank = 2 => Size = NxNy

\* Size() equals Nx()*Ny() after construction and after the operations
\* array2 defines
C18_ShapeAfterOwnOperations ==
    (shape.rank = 2 /\ call.op \in ShapeOperations) => Size = NxNy

\* the operations that change neither the size nor the extents keep the
\* relation between them as it was
C18_RelationKept ==
    [][(shape.rank = 2 /\ call'.op \in {"Set", "Hold", "Deallocate"})
         => ((Size = NxNy)' <=> (Size = NxNy))]_vars

\* the last call was Dimension(const array1<T>&) on the array A
DimensionedFromArray1 == call.op = "arrayN::Dimension(A)"

\* C19: for rank 2, 3, 4 and 5, Dimension(const array1<T>&) raises
\* "Operation not implemented" and leaves the size, the buffer pointer and
\* the state of the array unchanged; it is never silently applied.
C19_UnsupportedDimension ==
    DimensionedFromArray1 =>
        /\ pc = "ArrayExit"
        /\ access = "Operation not implemented"
        /\ arrays["A"]._size = call._size
        /\ arrays["A"].v = call.v
        /\ arrays["A"].state = call.state

\* the same for rank 2 alone
C19_UnsupportedDimensionArray2 ==
    shape.rank = 2 => C19_UnsupportedDimension

\* for rank 3 to 5 the call returns with the size, buffer and temporary
\* flag of the 1-D array
C19_AppliedAboveRank2 ==
    (DimensionedFromArray1 /\ shape.rank > 2) =>
        /\ pc = "arrays"
        /\ arrays["A"]._size = call.other_size
        /\ arrays["A"].v = call.other_v
        /\ ~test(arrays["A"].state, allocated)

----------------------------------------------------------------------------
\* the source cell (id, jd) of grid point c is inside the grid
SourceInside(conv, c) ==
    LET id == Id(conv, c \div _ysize, c % _ysize)
        jd == Jd(conv, c \div _ysize, c % _ysize)
    IN  0 <= id /\ id < _xsize /\ 0 <= jd /\ jd < _ysize

\* the entry the layout asks for at kernel position (a, b) of grid point c:
\* {i0*sizeY + j0, icq[a]*icp[b]} for (i0, j0) inside the grid, {0, 0}
\* otherwise, i0 and j0 as integers
LayoutEntry(conv, c, a, b) ==
    LET order == build.INTERPOL_TYPE
        q_i == c \div _ysize
        p_i == c % _ysize
        i0 == Id(conv, q_i, p_i) + a - (order - 1) \div 2
        j0 == Jd(conv, q_i, p_i) + b - (order - 1) \div 2
    IN  IF 0 <= i0 /\ i0 < _xsize /\ 0 <= j0 /\ j0 < _ysize
        THEN [index |-> i0 * _ysize + j0,
              weight |-> RMul(Ic(Xiq(q_i, p_i))[a], Ic(Xip(q_i, p_i))[b])]
        ELSE [index |-> 0, weight |-> RInt(0)]

\* the rows follow the layout under one conversion of negative coordinates
LaidOut(conv) ==
    \A c \in Cells :
        SourceInside(conv, c) =>
            \A a \in 0 .. build.INTERPOL_TYPE - 1,
               b \in 0 .. build.INTERPOL_TYPE - 1 :
                _heritage_map[c][a * build.INTERPOL_TYPE + b]
                    = LayoutEntry(conv, c, a, b)

\* C20: for every grid point whose source cell (id, jd) is inside the grid
\* and every kernel position (a, b), the entry at row position a*order+b is
\* {i0*sizeY + j0, icq[a]*icp[b]} with (i0, j0) = (id + a - (order-1)/2,
\* jd + b - (order-1)/2) when (i0, j0) is inside the grid and {0, 0}
\* otherwise, also when id + a - (order-1)/2 is negative.
C20_RowLayout ==
    pc = "constructed" => \E conv \in NegConversions : LaidOut(conv)

\* a constructed map with a row that holds both a weighted entry with
\* different coefficients in q and p and a sentinel for a negative i0
C20_RowWithBorder ==
    /\ pc = "constructed"
    /\ \E conv \in NegConversions :
         /\ LaidOut(conv)
         /\ \E c \in Cells :
              /\ SourceInside(conv, c)
              /\ Id(conv, c \div _ysize, c % _ysize) = 0
              /\ build.INTERPOL_TYPE >= 3
              /\ _heritage_map[c][0] = Sentinel
              /\ \E k \in RowPositions :
                   /\ _heritage_map[c][k].weight # RInt(0)
                   /\ Ic(Xiq(c \div _ysize, c % _ysize))
                        # Ic(Xip(c \div _ysize, c % _ysize))

----------------------------------------------------------------------------
\* floor of a rational
RFloor(a) == a[1] \div a[2]

\* 0 <= x < 1
InUnit(x) == x[1] >= 0 /\ x[1] < x[2]

\* the row of grid point c is as the base class made it
Untouched(c) == \A k \in RowPositions : _heritage_map[c][k] = Sentinel

\* floor of the source coordinates of grid point c is a cell of the grid
FloorInside(c) ==
    LET fq == RFloor(Qcoord(c \div _ysize, c % _ysize))
        fp == RFloor(Pcoord(c \div _ysize, c % _ysize))
    IN  0 <= fq /\ fq < _xsize /\ 0 <= fp /\ fp < _ysize

\* the split of the coordinates of grid point c, as the constructor made it
\* under one conversion of negative integral parts, is the floor and a
\* fraction in [0,1), and the row is written only for a floor inside the grid
FloorSplit(conv, c) ==
    LET q_i == c \div _ysize
        p_i == c % _ysize
    IN  /\ SourceInside(conv, c) =>
             /\ InUnit(Xiq(q_i, p_i))
             /\ InUnit(Xip(q_i, p_i))
             /\ Id(conv, q_i, p_i) = RFloor(Qcoord(q_i, p_i))
             /\ Jd(conv, q_i, p_i) = RFloor(Pcoord(q_i, p_i))
        /\ ~FloorInside(c) => Untouched(c)

\* C21: every source coordinate, negative ones included, is split into the
\* cell floor(c) and a fractional offset in [0,1); the offsets the kernel
\* weights are computed from are in [0,1), and a grid point whose floor(c)
\* is outside the grid gets no entries.
C21_FloorSplit ==
    pc = "constructed" =>
        \E conv \in NegConversions : \A c \in Cells : FloorSplit(conv, c)

\* both coordinates of grid point c are zero or more
NonNegative(c) ==
    /\ Qcoord(c \div _ysize, c % _ysize)[1] >= 0
    /\ Pcoord(c \div _ysize, c % _ysize)[1] >= 0

\* the split is the floor split wherever the source coordinates are not
\* negative
C21_FloorSplitNonNegative ==
    pc = "constructed" =>
        \A c \in Cells : \A conv \in NegConversions :
            NonNegative(c) => FloorSplit(conv, c)

\* a row was written for a grid point with a coordinate between -1 and 0
C21_WrittenBelowZero ==
    /\ pc = "constructed"
    /\ \E c \in Cells :
         /\ RFloor(Qcoord(c \div _ysize, c % _ysize)) = -1
         /\ ~Untouched(c)

----------------------------------------------------------------------------
(* The row positions behind the clamp of a 4-point kernel *)

Greatest(S) == CHOOSE v \in S : \A w \in S : ~DLess(v, w)

Least(S) == CHOOSE v \in S : \A w \in S : ~DLess(w, v)

\* the input values at the sources stored in the positions P of row c
ValuesAt(P, c) == { data_in[_heritage_map[c][k].index] : k \in P }

\* the row sum of cell c clamped with the range taken from the positions P
ClampedOver(P, c) ==
    StdMax(StdMin(Greatest(ValuesAt(P, c) \cup {MeshdataMin}), RowSum(c)),
           Least(ValuesAt(P, c) \cup {MeshdataMax}))

SaturatingOrder4 ==
    Applying /\ build.INTERPOL_SATURATING = 1 /\ build.INTERPOL_TYPE = 4

RingFirstColumn ==
    { build.INTERPOL_TYPE, build.INTERPOL_TYPE + 1,
      2 * build.INTERPOL_TYPE, 2 * build.INTERPOL_TYPE + 1 }

RingCentre ==
    { build.INTERPOL_TYPE + 1, build.INTERPOL_TYPE + 2,
      2 * build.INTERPOL_TYPE + 1, 2 * build.INTERPOL_TYPE + 2 }

(* C22: with saturation enabled and a 4-point kernel, the value apply()
   leaves in a processed cell is the row sum clamped with the range of the
   input values at the sources stored in row positions
   {order, order+1, 2*order, 2*order+1} = {4, 5, 8, 9}. *)
C22_ClampFirstColumn ==
    SaturatingOrder4 =>
        \A c \in Cells : c < i => data_out[c] = ClampedOver(RingFirstColumn, c)

(* C22, amended: the range is taken from the sources stored in row positions
   {order+1, order+2, 2*order+1, 2*order+2} = {5, 6, 9, 10}, the entries of
   the nodes 0 and 1 in both directions. *)
C22_ClampCentre ==
    SaturatingOrder4 =>
        \A c \in Cells : c < i => data_out[c] = ClampedOver(RingCentre, c)

\* a processed cell whose clamp changed the row sum, and for which the two
\* sets of positions hold different input values
C22_ClampActed ==
    /\ SaturatingOrder4
    /\ \E c \in Cells :
         /\ c < i
         /\ data_out[c] # RowSum(c)
         /\ ValuesAt(RingFirstColumn, c) # ValuesAt(RingCentre, c)

----------------------------------------------------------------------------
(* The kernel the accelerator path runs, against the sequential loop body *)

NoGarbage == [k \in {} |-> RInt(0)]

\* what the sequential loop body leaves in cell c for the field on the device
SequentialOnDevice(c) == CellValue(_heritage_map, data_buf_in, c, NoGarbage)

(* C23: the kernel the constructor binds is the saturating one exactly when
   INTERPOL_SATURATING is enabled, and every work-item that has run left in
   the output buffer the value the sequential path computes for that cell
   under the same build settings. *)
C23_KernelSelection ==
    pc # "start" =>
        /\ KernelName = "applyHM4sat" <=> build.INTERPOL_SATURATING = 1
        /\ \A c \in items : data_buf_out[c] = SequentialOnDevice(c)

\* the builds for which the order alone decides as the saturation flag does
FlagFollowsOrder == build.INTERPOL_TYPE = 4 <=> build.INTERPOL_SATURATING = 1

(* C23, supporting: in the builds where INTERPOL_TYPE = 4 coincides with
   INTERPOL_SATURATING, the work-items leave the sequential values. *)
C23_KernelSelectionByOrder ==
    (pc # "start" /\ FlagFollowsOrder) =>
        \A c \in items : data_buf_out[c] = SequentialOnDevice(c)

\* the kernel has run over the whole range in a build of each kind
C23_KernelRan ==
    /\ items = Cells
    /\ Cells # {}
    /\ FlagFollowsOrder
    /\ build.INTERPOL_SATURATING = 1
    /\ \E c \in Cells :
         data_buf_out[c] # Accumulate(_heritage_map, data_buf_in, c, 0, RInt(0))

----------------------------------------------------------------------------
(* The entries of the table and the reads of the sum loop *)

\* index is the flattened index of a cell of the grid
InGrid(e) ==
    \E i0 \in 0 .. (_xsize - 1), j0 \in 0 .. (_ysize - 1) :
        e.index = i0 * _ysize + j0

\* the elements of data_in the loop over j reads for cell c
SumReads(c) == { _heritage_map[c][j].index : j \in RowPositions }

(* C24: after the constructor every entry of every row is the sentinel {0,0}
   or holds the flattened index of a cell of the grid, so every stored index
   is below _xsize*_ysize, and the loop over j of the sequential apply() reads
   data_in only at indices in [0, _xsize*_ysize). *)
C24_StencilEntryValid ==
    /\ pc # "start" =>
         \A c \in Cells : \A k \in RowPositions :
             \/ _heritage_map[c][k] = Sentinel
             \/ /\ InGrid(_heritage_map[c][k])
                /\ _heritage_map[c][k].index < _size
    /\ Applying =>
         \A c \in Cells : c < i => SumReads(c) \subseteq DOMAIN data_in

\* apply() has run over a map with a row at the border: one entry of the row
\* is the sentinel, another one holds the index of the last cell of the grid
C24_RowAtBorderApplied ==
    /\ pc = "done"
    /\ _size > 1
    /\ \E c \in Cells :
         /\ \E k \in RowPositions : _heritage_map[c][k] = Sentinel
         /\ \E k \in RowPositions :
              /\ _heritage_map[c][k].index = _size - 1
              /\ _heritage_map[c][k].weight # RInt(0)

----------------------------------------------------------------------------
(* The interpolation coefficients as functions of the fractional offset *)

\* largest denominator of the offsets
MaxDen == 6

\* fractional parts std::modf returns: of magnitude below 1, of either sign
Fractions ==
    { R(n, d) : n \in (1 - MaxDen) .. (MaxDen - 1), d \in 1 .. MaxDen }
      \ { f \in { R(n, d) : n \in (1 - MaxDen) .. (MaxDen - 1),
                             d \in 1 .. MaxDen } : Abs(f[1]) >= f[2] }

\* the statements between '#if INTERPOL_TYPE == 1' and '#endif', for icq
Coefficients ==
    /\ pc = "offset"
    /\ ic' = Ic(xiq)
    /\ pc' = "coefficients"
    /\ UNCHANGED <<mapVars, data_in, data_out, i, xiq, callerVars, iterVars,
                   parVars, clVars, arrVars>>

InitCoefficients ==
    /\ build \in Builds
    /\ _xsize = 0
    /\ _ysize = 0
    /\ angle = [cos |-> 5, sin |-> 0]
    /\ _heritage_map = <<>>
    /\ data_in = NoField
    /\ data_out = NoField
    /\ i = 0
    /\ pc = "offset"
    /\ xiq \in Fractions
    /\ ic = <<>>
    /\ NoCalls
    /\ NoIterators
    /\ NoWorkers
    /\ NoDevice
    /\ NoArrays

NextCoefficients == Coefficients

SpecCoefficients == InitCoefficients /\ [][NextCoefficients]_vars

RECURSIVE RProduct(_, _)
RProduct(f, S) ==
    IF S = {} THEN RInt(1)
    ELSE LET n == CHOOSE m \in S : TRUE
         IN  RMul(f[n], RProduct(f, S \ {n}))

\* the Lagrange basis polynomial of node m among the nodes, evaluated at x
LagrangeBasis(nodes, m, x) ==
    RProduct([n \in nodes \ {m} |-> RMul(RSub(x, RInt(n)), R(1, m - n))],
             nodes \ {m})

\* the node weight a belongs to
NodeOf(a) == a - (build.INTERPOL_TYPE - 1) \div 2

Nodes == { NodeOf(a) : a \in 0 .. (build.INTERPOL_TYPE - 1) }

(* C25: the coefficients computed from an offset x are the values at x of
   the Lagrange basis polynomials on the nodes {0}, {0,1}, {-1,0,1} and
   {-1,0,1,2} for the orders 1 to 4, coefficient a belonging to node
   a-(order-1)/2; for order 2 they are 1-x and x, and at x = 0 the
   coefficient of node 0 is 1 and the others are 0. *)
C25_LagrangeWeights ==
    pc = "coefficients" =>
        /\ DOMAIN ic = 0 .. (build.INTERPOL_TYPE - 1)
        /\ Nodes = CASE build.INTERPOL_TYPE = 1 -> {0}
                     [] build.INTERPOL_TYPE = 2 -> {0, 1}
                     [] build.INTERPOL_TYPE = 3 -> {-1, 0, 1}
                     [] build.INTERPOL_TYPE = 4 -> {-1, 0, 1, 2}
        /\ \A a \in DOMAIN ic : ic[a] = LagrangeBasis(Nodes, NodeOf(a), xiq)
        /\ build.INTERPOL_TYPE = 2 =>
             ic = [a \in 0..1 |-> IF a = 0 THEN RSub(RInt(1), xiq) ELSE xiq]
        /\ xiq = RInt(0) =>
             \A a \in DOMAIN ic :
                 ic[a] = IF NodeOf(a) = 0 THEN RInt(1) ELSE RInt(0)

\* the cubic coefficients of an offset strictly inside a cell
C25_CubicWeights ==
    /\ pc = "coefficients"
    /\ build.INTERPOL_TYPE = 4
    /\ xiq = R(1, 3)
    /\ ic = [a \in 0..3 |->
                CASE a = 0 -> R(-5, 81) [] a = 1 -> R(20, 27)
                  [] a = 2 -> R(10, 27) [] a = 3 -> R(-4, 81)]

----------------------------------------------------------------------------
(* Array.h: operator = with an array operand, for the classes array1..array5
   and Array1..Array5.  Both operands own a buffer of their number of
   elements. *)

\* destination = source: arrayN = arrayN, ArrayN = ArrayN, ArrayN = arrayN
AssignClasses == {"plain=plain", "offset=offset", "offset=plain"}

\* nx*ny*...: the number of elements of an array of these extents
RECURSIVE Volume(_)
Volume(ext) == IF ext = <<>> THEN 1 ELSE Head(ext) * Volume(Tail(ext))

Zeros(rank) == [k \in 1 .. rank |-> 0]

\* offsets ox, oy, ...: all zero, or one of them 1
OffsetVectors(rank) ==
    {Zeros(rank)} \cup
    { [k \in 1 .. rank |-> IF k = d THEN 1 ELSE 0] : d \in 1 .. rank }

\* the pairs the operator hands to __checkEqual, in the order of the code
EqualityChecks(cls, rank, left, right, lo, ro) ==
    LET extents == [k \in 1 .. rank |-> <<left[k], right[k]>>]
        sizes == <<<<Volume(left), Volume(right)>>>>
        offsets == [k \in 1 .. rank |-> <<lo[k], ro[k]>>]
        zero == [k \in 1 .. rank |-> <<lo[k], 0>>]
        \* Array4 = array4: a second round against A.Nx() alone
        again == <<<<left[1], right[1]>>, <<left[2], right[1]>>,
                   <<left[3], right[1]>>, <<left[4], right[1]>>>>
    IN  CASE cls = "plain=plain" /\ rank = 1 -> <<>>
          [] cls = "plain=plain" /\ rank > 1 -> extents
          [] cls = "offset=offset" /\ rank = 1 -> sizes \o offsets
          [] cls = "offset=offset" /\ rank > 1 -> extents \o offsets
          [] cls = "offset=plain" /\ rank = 1 -> sizes \o zero
          [] cls = "offset=plain" /\ rank = 4 -> extents \o again \o zero
          [] OTHER -> extents \o zero

\* operator = (const A&): the checks, then Load(A()) and A.Purge()
Assignment(cls, rank, left, right, lo, ro) ==
    LET checks == EqualityChecks(cls, rank, left, right, lo, ro)
    IN  IF \E k \in DOMAIN checks : __checkEqual(checks[k][1], checks[k][2])
        THEN [outcome |-> "ArrayExit", modified |-> 0, size |-> Volume(left)]
        ELSE IF cls = "plain=plain" /\ rank = 1
        THEN \* sizes differ: Deallocate(), Allocate(A.Size()); then Load
             Loaded(Volume(right), Volume(right))
        ELSE Loaded(Volume(left), Volume(right))

\* destination = source is called
AssignArray ==
    /\ pc = "assign"
    /\ binop' =
         [binop EXCEPT
            !.result = Assignment(binop.cls, binop.rank, binop.left,
                                  binop.right, binop.lo, binop.ro)]
    /\ pc' = "assigned"
    /\ UNCHANGED <<NDEBUG, shape, access, arrays, heap, call, mem, idleArr>>

InitAssign ==
    /\ NoMap
    /\ pc = "assign"
    /\ NoCalls
    /\ NoIterators
    /\ NoCoefficients
    /\ NoWorkers
    /\ NoDevice
    /\ NDEBUG \in BOOLEAN
    /\ shape = <<>>
    /\ access = <<>>
    /\ arrays = <<>>
    /\ heap = <<>>
    /\ call = <<>>
    /\ mem = <<>>
    /\ \E rank \in 1 .. 5, cls \in AssignClasses :
         \E left \in [1 .. rank -> 1 .. MaxExtent],
            right \in [1 .. rank -> 1 .. MaxExtent],
            lo \in OffsetVectors(rank), ro \in OffsetVectors(rank) :
           /\ cls = "plain=plain" => lo = Zeros(rank)
           /\ cls # "offset=offset" => ro = Zeros(rank)
           /\ binop = [cls |-> cls, rank |-> rank, left |-> left,
                       right |-> right, lo |-> lo, ro |-> ro,
                       result |-> [outcome |-> "none", modified |-> 0,
                                   size |-> Volume(left)]]

NextAssign == AssignArray

SpecAssign == InitAssign /\ [][NextAssign]_vars

\* the operands have the same extents and the same offsets
SameShape == binop.left = binop.right /\ binop.lo = binop.ro

Completed ==
    /\ binop.result.outcome = "completed"
    /\ binop.result.modified = Volume(binop.right)
    /\ binop.result.size = Volume(binop.right)

(* C26: for each rank 1 to 5 and each of plain = plain, offset = offset and
   offset = plain with zero offsets, the assignment of a source whose extents
   equal the destination's completes without a fault and copies all
   elements, whatever the extents are. *)
C26_SameShapeAssignment ==
    (pc = "assigned" /\ SameShape) => Completed

\* the operator that compares three extents of the destination with A.Nx()
Array4FromArray4 == binop.cls = "offset=plain" /\ binop.rank = 4

(* C26, supporting: the assignment of a same-shape source completes for
   every class but Array4 = array4, and for that one when the build is
   unchecked or the four extents are equal. *)
C26_SameShapeButArray4 ==
    (pc = "assigned" /\ SameShape) =>
        IF Array4FromArray4 /\ ~NDEBUG
             /\ \E k \in 2 .. 4 : binop.left[k] # binop.left[1]
        THEN binop.result.outcome = "ArrayExit"
        ELSE Completed

\* a same-shape assignment of rank 5 with unequal extents has completed
C26_Rank5Assigned ==
    /\ pc = "assigned"
    /\ SameShape
    /\ binop.rank = 5
    /\ binop.left[1] # binop.left[2]
    /\ Completed

----------------------------------------------------------------------------
(* The row positions of the saturation pass against the length of a row *)

\* the cells whose saturation pass has run
Clamped == { c \in Cells : Applying /\ build.INTERPOL_SATURATING = 1 /\ c < i }

\* positions of the pass that lie in the row of the cell
InRow == { n \in 1..4 : SatPositions[n] < _ip }

(* C27: with saturation enabled, for every interpolation order 1 to 4 and
   every target cell, every row position x*order+y (x and y in {1,2}) the
   clamp reads is below K = order*order: the clamp reads no entry of another
   row and no entry past the end of the table. *)
C27_SaturationInsideRow ==
    \A c \in Clamped :
        /\ InRow = 1..4
        /\ OutOfTable(c) = {}

(* C27, supporting: the positions are inside the row exactly for the orders
   3 and 4; for the orders 1 and 2 the pass of the last cell reads past the
   end of the table, and that of every other cell reads the rows behind its
   own. *)
C27_InsideRowFromOrder3 ==
    \A c \in Clamped :
        /\ build.INTERPOL_TYPE >= 3 => InRow = 1..4 /\ OutOfTable(c) = {}
        /\ build.INTERPOL_TYPE = 2 => InRow = {1}
        /\ build.INTERPOL_TYPE = 1 => InRow = {}
        /\ (build.INTERPOL_TYPE <= 2 /\ c = _size - 1) => OutOfTable(c) # {}

----------------------------------------------------------------------------
(* Allocate, Reallocate and Dimension(n) on arrays that own their buffers *)

NextSize ==
    \E x \in Names :
        \/ CallAllocate(x)
        \/ CallReallocate(x)
        \/ DimensionN(x)

SpecSize == InitOwn /\ [][NextSize]_vars

\* the array owns a buffer
Owning(x) == arrays[x].alive /\ test(arrays[x].state, allocated)

\* Size() is at most the number of elements of the buffer behind v
WithinCapacity(arr, h, x) ==
    (arr[x].alive /\ test(arr[x].state, allocated)) =>
        arr[x]._size <= h[arr[x].v].len

(* C28: after any sequence of Allocate, Reallocate and Dimension(n) calls on
   an array that owns its buffer, Size() is at most the number of elements
   of the owned buffer, so that an index that passes the bounds check lies
   inside the buffer and Deallocate destroys the elements constructed. *)
C28_SizeWithinCapacity ==
    \A x \in Names : WithinCapacity(arrays, heap, x)

(* C28, supporting: Allocate and Reallocate leave Size() equal to the number
   of elements of the buffer they acquired; only Dimension(n) breaks the
   relation. *)
C28_SizeKeptByAllocation ==
    [][\A x \in Names :
         (call'.op \in {"Allocate", "Reallocate"} /\ call'.self = x) =>
             /\ Owning(x)'
             /\ arrays'[x]._size = heap'[arrays'[x].v].len]_vars

\* Dimension(n) was called on an owning array with a larger n
C28_DimensionedBeyondBuffer ==
    /\ call.op = "Dimension(n)"
    /\ Owning(call.self)
    /\ arrays[call.self]._size > heap[arrays[call.self].v].len

----------------------------------------------------------------------------
(* Array.h: swaparray, leftshiftarray and rightshiftarray on arrays that own
   their buffers, and the destructors that run when the arrays go out of
   scope *)

Trio == {"A", "B", "C"}

\* T C: array1() : v(NULL), _size(0), state(unallocated)
Local == [v |-> 0, off |-> 0, _size |-> 0, state |-> unallocated,
          alive |-> TRUE]

\* a.Dimension(b): Dimension(A._size,A.v); state=A.test(temporary)
DimensionOf(a, b) ==
    [a EXCEPT !._size = b._size, !.v = b.v, !.off = b.off,
              !.state = IF test(b.state, temporary)
                        THEN temporary ELSE unallocated]

\* the body of swaparray(x, y), then the destructor of its local C
swaparray(arr, h, x, y) ==
    LET c == DimensionOf(Local, arr[x])
        a1 == [arr EXCEPT ![x] = DimensionOf(arr[x], arr[y])]
        a2 == [a1 EXCEPT ![y] = DimensionOf(a1[y], c)]
    IN  [arr |-> a2, heap |-> Deallocate(c, h).heap]

\* the body of leftshiftarray(x, y, z), then the destructor of its local D
leftshiftarray(arr, h, x, y, z) ==
    LET d == DimensionOf(Local, arr[x])
        a1 == [arr EXCEPT ![x] = DimensionOf(arr[x], arr[y])]
        a2 == [a1 EXCEPT ![y] = DimensionOf(a1[y], a1[z])]
        a3 == [a2 EXCEPT ![z] = DimensionOf(a2[z], d)]
    IN  [arr |-> a3, heap |-> Deallocate(d, h).heap]

\* the body of rightshiftarray(x, y, z), then the destructor of its local D
rightshiftarray(arr, h, x, y, z) ==
    LET d == DimensionOf(Local, arr[z])
        a1 == [arr EXCEPT ![z] = DimensionOf(arr[z], arr[y])]
        a2 == [a1 EXCEPT ![y] = DimensionOf(a1[y], a1[x])]
        a3 == [a2 EXCEPT ![x] = DimensionOf(a2[x], d)]
    IN  [arr |-> a3, heap |-> Deallocate(d, h).heap]

\* the caller swaps two of its arrays
SwapArrays ==
    /\ pc = "arrays"
    /\ call.n < MaxCalls
    /\ \E x \in Trio : \E y \in Trio \ {x} :
         LET r == swaparray(arrays, heap, x, y)
         IN  /\ arrays' = r.arr
             /\ heap' = r.heap
             /\ call' = Entry("swaparray", x, y)
    /\ UNCHANGED <<pc, NDEBUG, shape, access, binop, idleArr>>

\* the caller shifts its three arrays to the left or to the right
ShiftArrays ==
    /\ pc = "arrays"
    /\ call.n < MaxCalls
    /\ \E x \in Trio, left \in BOOLEAN : \E y \in Trio \ {x} :
         LET z == CHOOSE w \in Trio : w \notin {x, y}
             r == IF left THEN leftshiftarray(arrays, heap, x, y, z)
                  ELSE rightshiftarray(arrays, heap, x, y, z)
         IN  /\ arrays' = r.arr
             /\ heap' = r.heap
             /\ call' = Entry(IF left THEN "leftshiftarray"
                              ELSE "rightshiftarray", x,
                              IF left THEN y ELSE z)
    /\ UNCHANGED <<pc, NDEBUG, shape, access, binop, idleArr>>

\* the arrays go out of scope: ~array1() of C, B and A
ScopeExit ==
    /\ pc = "arrays"
    /\ LET dc == Deallocate(arrays["C"], heap)
           db == Deallocate(arrays["B"], dc.heap)
           da == Deallocate(arrays["A"], db.heap)
       IN  /\ arrays' = [x \in Trio |->
                           [(CASE x = "A" -> da.arr [] x = "B" -> db.arr
                               [] x = "C" -> dc.arr)
                            EXCEPT !.alive = FALSE]]
           /\ heap' = da.heap
    /\ pc' = "destroyed"
    /\ UNCHANGED <<NDEBUG, shape, access, call, binop, idleArr>>

\* the buffer of the caller, then A(na, aa), B(nb, ab) and C(nc, ac)
InitSwap ==
    /\ NoMap
    /\ pc = "arrays"
    /\ NoCalls
    /\ NoIterators
    /\ NoCoefficients
    /\ NoWorkers
    /\ NoDevice
    /\ NDEBUG \in BOOLEAN
    /\ shape = <<>>
    /\ access = <<>>
    /\ call = [op |-> "none", n |-> 0]
    /\ binop = <<>>
    /\ mem = <<>>
    /\ \E na \in 1 .. MaxLen, nb \in 1 .. MaxLen, nc \in 1 .. MaxLen,
          aa \in Alignments, ab \in Alignments, ac \in Alignments :
         LET none == [v |-> 0, off |-> 0, _size |-> 0,
                      state |-> unallocated, alive |-> TRUE]
             ext == <<[kind |-> "external", len |-> MaxLen, by |-> "caller",
                       frees |-> 0, released |-> "",
                       data |-> [j \in 1 .. MaxLen |-> 30 + j]]>>
             a == Allocate(none, ext, na, aa, "A")
             b == Allocate(none, a.heap, nb, ab, "B")
             c == Allocate(none, b.heap, nc, ac, "C")
         IN  /\ arrays = [x \in Trio |->
                            CASE x = "A" -> a.arr [] x = "B" -> b.arr
                              [] x = "C" -> c.arr]
             /\ heap = c.heap

NextSwap == SwapArrays \/ ShiftArrays \/ ScopeExit

SpecSwap == InitSwap /\ [][NextSwap]_vars

\* the buffers the arrays acquired
Acquired == { b \in 1 .. Len(heap) : heap[b].kind # "external" }

\* the arrays that own buffer b
OwnersOf(b) ==
    { x \in DOMAIN arrays :
        /\ arrays[x].alive
        /\ arrays[x].v = b
        /\ test(arrays[x].state, allocated) }

Exchanged == call.op \in {"swaparray", "leftshiftarray", "rightshiftarray"}

\* the arrays the last call was made on
Touched == IF call.op = "swaparray" THEN {call.self, call.other} ELSE Trio

(* C29: after swaparray, leftshiftarray or rightshiftarray on owning 1-D
   arrays, the arrays hold each other's former buffers and sizes, each of
   the buffers is still owned by exactly one of the arrays, and destroying
   the arrays frees each buffer exactly once. *)
C29_SwapPreservesOwnership ==
    Exchanged =>
        /\ pc = "arrays" =>
             /\ arrays[call.self].v = call.other_v
             /\ arrays[call.self]._size = call.other_size
             /\ \A b \in Acquired : Cardinality(OwnersOf(b)) = 1
        /\ pc = "destroyed" => \A b \in Acquired : heap[b].frees = 1

(* C29, supporting: the three functions do exchange the buffers and the
   sizes, but every array they touched is left owning nothing, so that the
   destructors free its buffer not at all; no buffer is ever freed twice,
   and without a call of the three every buffer is freed once. *)
C29_SwapDropsOwnership ==
    /\ Exchanged =>
         /\ pc = "arrays" =>
              /\ arrays[call.self].v = call.other_v
              /\ arrays[call.self]._size = call.other_size
              /\ \A x \in Touched : OwnersOf(arrays[x].v) = {}
         /\ pc = "destroyed" =>
              \A x \in Touched : heap[arrays[x].v].frees = 0
    /\ \A b \in Acquired : heap[b].frees <= 1
    /\ (pc = "destroyed" /\ ~Exchanged) => \A b \in Acquired : heap[b].frees = 1

----------------------------------------------------------------------------
(* Array.h: the iterators of array1.  An iterator is its member _ptr, here
   the position of the element it points to, from begin() (0) to end(). *)

Iterators == {"it1", "it2", "it3"}

\* positions from begin() to end() of an array of MaxLen elements
Positions == 0 .. MaxLen

\* friend void swap(abstract_iterator& lhs, abstract_iterator& rhs)
swap(ptr, lhs, rhs) == [ptr EXCEPT ![lhs] = ptr[rhs], ![rhs] = ptr[lhs]]

\* abstract_iterator& operator=(abstract_iterator& other), called as a = b
IteratorAssign ==
    /\ pc = "iterating"
    /\ \E a \in Iterators : \E b \in Iterators \ {a} :
         /\ _ptr' = swap(_ptr, a, b)
         /\ call' = [op |-> "operator=", self |-> a, other |-> b,
                     before |-> _ptr]
    /\ UNCHANGED <<pc, NDEBUG, shape, access, arrays, heap, binop, mem,
                   mapVars, data_in, data_out, i, callerVars, coefVars,
                   parVars, clVars>>

\* operator++(): _ptr++, for an iterator before end()
IteratorIncrement ==
    /\ pc = "iterating"
    /\ \E a \in Iterators :
         /\ _ptr[a] < MaxLen
         /\ _ptr' = [_ptr EXCEPT ![a] = @ + 1]
         /\ call' = [op |-> "operator++", self |-> a, other |-> a,
                     before |-> _ptr]
    /\ UNCHANGED <<pc, NDEBUG, shape, access, arrays, heap, binop, mem,
                   mapVars, data_in, data_out, i, callerVars, coefVars,
                   parVars, clVars>>

\* operator--(): _ptr--, for an iterator behind begin()
IteratorDecrement ==
    /\ pc = "iterating"
    /\ \E a \in Iterators :
         /\ _ptr[a] > 0
         /\ _ptr' = [_ptr EXCEPT ![a] = @ - 1]
         /\ call' = [op |-> "operator--", self |-> a, other |-> a,
                     before |-> _ptr]
    /\ UNCHANGED <<pc, NDEBUG, shape, access, arrays, heap, binop, mem,
                   mapVars, data_in, data_out, i, callerVars, coefVars,
                   parVars, clVars>>

\* three iterators as begin() and end() return them
InitIterators ==
    /\ NoMap
    /\ pc = "iterating"
    /\ NoCalls
    /\ NoCoefficients
    /\ NoWorkers
    /\ NoDevice
    /\ NDEBUG = FALSE
    /\ shape = <<>>
    /\ access = <<>>
    /\ arrays = <<>>
    /\ heap = <<>>
    /\ binop = <<>>
    /\ mem = <<>>
    /\ call = [op |-> "none"]
    /\ _ptr \in [Iterators -> {0, MaxLen}]

NextIterators == IteratorAssign \/ IteratorIncrement \/ IteratorDecrement

SpecIterators == InitIterators /\ [][NextIterators]_vars

IteratorAssigned == call.op = "operator="

(* C30: after it1 = it2 for two iterators, it1 points where it2 pointed and
   it2 still points to the element it pointed to before the assignment. *)
C30_IteratorAssignment ==
    IteratorAssigned =>
        /\ _ptr[call.self] = call.before[call.other]
        /\ _ptr[call.other] = call.before[call.other]

(* C30, supporting: the assignment exchanges the two iterators: the
   destination points where the source pointed, the source where the
   destination pointed, and every other iterator is as before. *)
C30_IteratorAssignmentSwaps ==
    IteratorAssigned =>
        /\ _ptr[call.self] = call.before[call.other]
        /\ _ptr[call.other] = call.before[call.self]
        /\ \A c \in Iterators \ {call.self, call.other} :
               _ptr[c] = call.before[c]

====
